---- MODULE Spec2Model ----
(***************************************************************************)
(* BirchVault desktop: the local store (db.rs) and the sync engine         *)
(* (sync.rs).  Tables are functions from primary key to row; an absent    *)
(* key is an absent row.  Timestamps are readings of the wall clock `now`; *)
(* Utc::now().to_rfc3339() strings of one UTC offset compare as the       *)
(* instants they denote, so a timestamp is modelled by its instant.       *)
(* The wall clock is taken to be non-decreasing; several operations may   *)
(* read the same instant.                                                  *)
(***************************************************************************)
EXTENDS Integers, Sequences, FiniteSets, TLC

\* ---------------------------------------------------------------- bounds
MaxTime == 1          \* the clock reads 0..MaxTime
MaxStoreCalls == 2    \* calls of Local Store mutators in one behaviour
MaxCycles == 1        \* sync cycles started in one behaviour

\* ------------------------------------------------------- program constants
SkewWindow == 300     \* ensure_valid_token: refresh when fewer seconds remain

\* ------------------------------------------------------------ value sets
ItemIds == {"a", "b"}
FolderIds == {"f"}
FolderNames == {"n1", "n2"}
Tasks == {"t1", "t2"}
NULL == -1            \* Option<String> timestamp that is None
NoFolder == "none"    \* folder_id that is None
UserId == "u1"
\* The record contents a caller passes to create/update: encrypted_data,
\* folder_id, is_favorite.
ItemInputs == {<<"d1", NoFolder, TRUE>>, <<"d2", "f", FALSE>>}

VARIABLES
    now,              \* wall clock (Utc::now())
    vault_items,      \* table vault_items: id -> row
    folders,          \* table folders: id -> row
    sync_queue,       \* table sync_queue: rowid -> row
    sqlite_sequence,  \* AUTOINCREMENT high-water mark of sync_queue.id
    user_session,     \* table user_session: {1} -> row, or empty
    status,           \* SyncEngine.status (behind the RwLock)
    task,             \* per caller of sync(): position and locals
    server_items,     \* backend table vault_items
    server_folders,   \* backend table folders
    cycles,           \* history: sync cycles started so far
    store_calls,      \* history: Local Store mutator calls made so far
    db_result,        \* history: Result of the latest Local Store mutator call
    is_locked         \* AppState.is_locked (commands.rs)

vars == <<now, vault_items, folders, sync_queue, sqlite_sequence, user_session,
          status, task, server_items, server_folders, cycles, store_calls,
          db_result, is_locked>>

dbVars == <<vault_items, folders, sync_queue, sqlite_sequence, user_session>>
serverVars == <<server_items, server_folders>>
storeHist == <<cycles, store_calls, db_result>>

\* ------------------------------------------------------------- row shapes
\* db.rs VaultItem
VaultItem(id, data, folder, fav, del, synced, lua, sua) ==
    [id |-> id, encrypted_data |-> data, item_type |-> "login", folder_id |-> folder,
     is_favorite |-> fav, deleted_at |-> del, synced_at |-> synced,
     local_updated_at |-> lua, server_updated_at |-> sua]

\* db.rs Folder
Folder(id, name, synced, lua) ==
    [id |-> id, name |-> name, synced_at |-> synced, local_updated_at |-> lua]

\* db.rs UserSession
UserSession(uid, tok, exp, last) ==
    [user_id |-> uid, access_token |-> tok, refresh_token |-> tok,
     expires_at |-> exp, last_sync_at |-> last]

\* f with key k bound to v (INSERT OR REPLACE / INSERT of a new key)
Put(f, k, v) == [x \in (DOMAIN f) \cup {k} |-> IF x = k THEN v ELSE f[x]]

\* f without key k (DELETE ... WHERE id = k)
Del(f, k) == [x \in (DOMAIN f) \ {k} |-> f[x]]

EmptyTable == [x \in {} |-> 0]

\* ------------------------------------------------------------- sync queue
\* A coalescing enqueue: an earlier entry for the same record is replaced.
add_to_sync_queue_coalescing(q, seq, operation, table_name, record_id, payload, t) ==
    LET keep == {i \in DOMAIN q : ~(q[i].table_name = table_name /\ q[i].record_id = record_id)}
        kept == [i \in keep |-> q[i]]
    IN  Put(kept, seq + 1,
            [operation |-> operation, table_name |-> table_name, record_id |-> record_id,
             payload |-> payload, created_at |-> t])

\* db.rs add_to_sync_queue_internal: INSERT INTO sync_queue; the rowid is
\* AUTOINCREMENT, payload is the serialized record or NULL.
add_to_sync_queue_internal(q, seq, operation, table_name, record_id, payload, t) ==
    Put(q, seq + 1,
        [operation |-> operation, table_name |-> table_name, record_id |-> record_id,
         payload |-> payload, created_at |-> t])

\* ORDER BY created_at ASC; rows of equal created_at come in rowid order.
QueueBefore(q, i, j) ==
    \/ q[i].created_at < q[j].created_at
    \/ q[i].created_at = q[j].created_at /\ i < j

RECURSIVE OrderedIds(_, _)
OrderedIds(q, ids) ==
    IF ids = {} THEN <<>>
    ELSE LET first == CHOOSE i \in ids : \A j \in ids \ {i} : QueueBefore(q, i, j)
         IN  <<first>> \o OrderedIds(q, ids \ {first})

\* The pending list newest first.
get_pending_sync_items_desc(q) ==
    LET ids == OrderedIds(q, DOMAIN q)
        n == Len(ids)
    IN  [k \in 1..n |->
            [id |-> ids[n + 1 - k], operation |-> q[ids[n + 1 - k]].operation,
             table_name |-> q[ids[n + 1 - k]].table_name,
             record_id |-> q[ids[n + 1 - k]].record_id,
             payload |-> q[ids[n + 1 - k]].payload,
             created_at |-> q[ids[n + 1 - k]].created_at]]

\* db.rs get_pending_sync_items: SELECT ... FROM sync_queue ORDER BY created_at ASC
get_pending_sync_items(q) ==
    LET ids == OrderedIds(q, DOMAIN q)
    IN  [k \in 1..Len(ids) |->
            [id |-> ids[k], operation |-> q[ids[k]].operation,
             table_name |-> q[ids[k]].table_name, record_id |-> q[ids[k]].record_id,
             payload |-> q[ids[k]].payload, created_at |-> q[ids[k]].created_at]]

\* A removal that deletes the entry and every entry queued after it.
remove_from_sync_queue_upto_end(q, id) ==
    [x \in {y \in DOMAIN q : y < id} |-> q[x]]

\* db.rs remove_from_sync_queue: DELETE FROM sync_queue WHERE id = ?1
remove_from_sync_queue(q, id) == Del(q, id)

\* A mark_item_synced that updates no row.
mark_item_synced_skip(items, record_id, t) == items

\* db.rs mark_item_synced, table vault_items: UPDATE ... WHERE id = ?1
mark_item_synced_items(items, record_id, t) ==
    [x \in DOMAIN items |->
        IF x = record_id
        THEN [items[x] EXCEPT !.synced_at = t, !.server_updated_at = t]
        ELSE items[x]]

\* db.rs mark_item_synced, table folders
mark_item_synced_folders(fs, record_id, t) ==
    [x \in DOMAIN fs |->
        IF x = record_id THEN [fs[x] EXCEPT !.synced_at = t] ELSE fs[x]]

\* A listing that does not look at deleted_at.
get_all_vault_items_unfiltered(items) == {items[x] : x \in DOMAIN items}

\* db.rs get_all_vault_items: SELECT ... WHERE deleted_at IS NULL; the rows
\* returned, their order left out.
get_all_vault_items(items) ==
    {items[x] : x \in {y \in DOMAIN items : items[y].deleted_at = NULL}}

\* db.rs get_trashed_items: SELECT ... WHERE deleted_at IS NOT NULL; the
\* rows returned, their order left out.
get_trashed_items(items) ==
    {items[x] : x \in {y \in DOMAIN items : items[y].deleted_at /= NULL}}

\* db.rs get_unsynced_items: SELECT ... WHERE synced_at IS NULL OR
\* local_updated_at > COALESCE(synced_at, '1970-01-01'); the rows returned.
get_unsynced_items(items) ==
    {items[x] : x \in {y \in DOMAIN items :
                          \/ items[y].synced_at = NULL
                          \/ items[y].local_updated_at > items[y].synced_at}}

\* ------------------------------------------------- Local Store mutators
\* A storage fault may hit any statement of a mutator; the statements run in
\* autocommit mode, so the ones before the fault stay committed.
Faults2 == {"none", "stmt1", "stmt2"}
Faults3 == {"none", "stmt1", "stmt2", "stmt3"}

\* The call returns Ok after its INSERT INTO sync_queue.
Enqueue(operation, table_name, record_id, payload) ==
    /\ store_calls < MaxStoreCalls
    /\ sync_queue' = add_to_sync_queue_internal(sync_queue, sqlite_sequence, operation,
                                                table_name, record_id, payload, now)
    /\ sqlite_sequence' = sqlite_sequence + 1
    /\ store_calls' = store_calls + 1
    /\ db_result' = "Ok"

\* The call returns Err.
Failed ==
    /\ store_calls < MaxStoreCalls
    /\ UNCHANGED <<sync_queue, sqlite_sequence>>
    /\ store_calls' = store_calls + 1
    /\ db_result' = "Err"

otherVars ==
    <<now, user_session, status, task, server_items, server_folders, cycles, is_locked>>

\* db.rs insert_vault_item (called by commands.rs create_vault_item)
insert_vault_item(id, data, folder, fav, fault) ==
    LET item == VaultItem(id, data, folder, fav, NULL, NULL, now, NULL) IN
    /\ IF fault = "stmt1" \/ id \in DOMAIN vault_items
       THEN UNCHANGED vault_items /\ Failed
       ELSE /\ vault_items' = Put(vault_items, id, item)
            /\ IF fault = "stmt2" THEN Failed
               ELSE Enqueue("create", "vault_items", id, {item})
    /\ UNCHANGED <<folders, otherVars>>

\* db.rs update_vault_item (called by commands.rs update_vault_item)
update_vault_item(id, data, folder, fav, fault) ==
    LET item == VaultItem(id, data, folder, fav, NULL, NULL, now, NULL) IN
    /\ IF fault = "stmt1"
       THEN UNCHANGED vault_items /\ Failed
       ELSE /\ vault_items' =
                   [x \in DOMAIN vault_items |->
                       IF x = id
                       THEN [vault_items[x] EXCEPT !.encrypted_data = data,
                                                   !.item_type = item.item_type,
                                                   !.folder_id = folder,
                                                   !.is_favorite = fav,
                                                   !.deleted_at = item.deleted_at,
                                                   !.local_updated_at = now]
                       ELSE vault_items[x]]
            /\ IF fault = "stmt2"
               THEN Failed
               ELSE Enqueue("update", "vault_items", id, {item})
    /\ UNCHANGED <<folders, otherVars>>

\* db.rs soft_delete_vault_item
soft_delete_vault_item(id, fault) ==
    /\ IF fault = "stmt1"
       THEN UNCHANGED vault_items /\ Failed
       ELSE /\ vault_items' =
                   [x \in DOMAIN vault_items |->
                       IF x = id
                       THEN [vault_items[x] EXCEPT !.deleted_at = now,
                                                   !.local_updated_at = now]
                       ELSE vault_items[x]]
            /\ IF fault = "stmt2"
               THEN Failed
               ELSE Enqueue("update", "vault_items", id, {})
    /\ UNCHANGED <<folders, otherVars>>

\* db.rs restore_vault_item
restore_vault_item(id, fault) ==
    /\ IF fault = "stmt1"
       THEN UNCHANGED vault_items /\ Failed
       ELSE /\ vault_items' =
                   [x \in DOMAIN vault_items |->
                       IF x = id
                       THEN [vault_items[x] EXCEPT !.deleted_at = NULL,
                                                   !.local_updated_at = now]
                       ELSE vault_items[x]]
            /\ IF fault = "stmt2"
               THEN Failed
               ELSE Enqueue("update", "vault_items", id, {})
    /\ UNCHANGED <<folders, otherVars>>

\* db.rs permanently_delete_vault_item
permanently_delete_vault_item(id, fault) ==
    /\ IF fault = "stmt1"
       THEN UNCHANGED vault_items /\ Failed
       ELSE /\ vault_items' = Del(vault_items, id)
            /\ IF fault = "stmt2"
               THEN Failed
               ELSE Enqueue("delete", "vault_items", id, {})
    /\ UNCHANGED <<folders, otherVars>>

\* db.rs insert_folder (called by commands.rs create_folder)
insert_folder(id, name, fault) ==
    LET folder == Folder(id, name, NULL, now) IN
    /\ IF fault = "stmt1" \/ id \in DOMAIN folders
       THEN UNCHANGED folders /\ Failed
       ELSE /\ folders' = Put(folders, id, folder)
            /\ IF fault = "stmt2" THEN Failed
               ELSE Enqueue("create", "folders", id, {folder})
    /\ UNCHANGED <<vault_items, otherVars>>

\* db.rs update_folder (called by commands.rs update_folder)
update_folder(id, name, fault) ==
    LET folder == Folder(id, name, NULL, now) IN
    /\ IF fault = "stmt1"
       THEN UNCHANGED folders /\ Failed
       ELSE /\ folders' =
                   [x \in DOMAIN folders |->
                       IF x = id
                       THEN [folders[x] EXCEPT !.name = name, !.local_updated_at = now]
                       ELSE folders[x]]
            /\ IF fault = "stmt2"
               THEN Failed
               ELSE Enqueue("update", "folders", id, {folder})
    /\ UNCHANGED <<vault_items, otherVars>>

\* A delete_folder that leaves the items' folder references as they are.
delete_folder_keep(id, fault) ==
    /\ IF fault = "stmt1"
       THEN UNCHANGED folders /\ Failed
       ELSE IF fault = "stmt2"
       THEN UNCHANGED folders /\ Failed
       ELSE /\ folders' = Del(folders, id)
            /\ IF fault = "stmt3"
               THEN Failed
               ELSE Enqueue("delete", "folders", id, {})
    /\ UNCHANGED <<vault_items, otherVars>>

\* db.rs delete_folder
delete_folder(id, fault) ==
    LET cleared == [x \in DOMAIN vault_items |->
                       IF vault_items[x].folder_id = id
                       THEN [vault_items[x] EXCEPT !.folder_id = NoFolder]
                       ELSE vault_items[x]]
    IN
    /\ IF fault = "stmt1"
       THEN UNCHANGED <<vault_items, folders>> /\ Failed
       ELSE /\ vault_items' = cleared
            /\ IF fault = "stmt2"
               THEN /\ UNCHANGED folders
                    /\ Failed
               ELSE /\ folders' = Del(folders, id)
                    /\ IF fault = "stmt3"
                       THEN Failed
                       ELSE Enqueue("delete", "folders", id, {})
    /\ UNCHANGED otherVars

\* Any one call of a Local Store mutator.
StoreMutation ==
    \/ \E id \in ItemIds, in \in ItemInputs, fault \in Faults2 :
            insert_vault_item(id, in[1], in[2], in[3], fault)
    \/ \E id \in ItemIds, in \in ItemInputs, fault \in Faults2 :
            update_vault_item(id, in[1], in[2], in[3], fault)
    \/ \E id \in ItemIds, fault \in Faults2 : soft_delete_vault_item(id, fault)
    \/ \E id \in ItemIds, fault \in Faults2 : restore_vault_item(id, fault)
    \/ \E id \in ItemIds, fault \in Faults2 : permanently_delete_vault_item(id, fault)
    \/ \E id \in FolderIds, n \in FolderNames, fault \in Faults2 : insert_folder(id, n, fault)
    \/ \E id \in FolderIds, n \in FolderNames, fault \in Faults2 : update_folder(id, n, fault)
    \/ \E id \in FolderIds, fault \in Faults3 : delete_folder(id, fault)

\* The wall clock advances.
Tick ==
    /\ now < MaxTime
    /\ now' = now + 1
    /\ UNCHANGED <<dbVars, status, task, serverVars, storeHist, is_locked>>

\* ------------------------------------------------------------ the backend
\* Backend row of vault_items as the REST surface returns it.
ServerItem(item, uid, t) ==
    [id |-> item.id, user_id |-> uid, encrypted_data |-> item.encrypted_data,
     item_type |-> item.item_type, folder_id |-> item.folder_id,
     deleted_at |-> item.deleted_at, updated_at |-> t]

\* Backend row of folders.
ServerFolder(folder, uid, t) ==
    [id |-> folder.id, user_id |-> uid, name |-> folder.name, updated_at |-> t]

\* GET /<table>?user_id=eq.<id>[&updated_at=gt.<since>]
RemoteList(table, uid, since) ==
    {table[x] : x \in {y \in DOMAIN table :
                         /\ table[y].user_id = uid
                         /\ (since = NULL \/ table[y].updated_at > since)}}

\* Lifetime of a token the backend grants on refresh.
TokenLifetime == 2 * SkewWindow

\* ------------------------------------------------------------ sync engine
InitStatus ==
    [is_syncing |-> FALSE, last_sync_at |-> NULL, pending_changes |-> 0, is_online |-> TRUE]

\* A caller that is not inside a call of the engine.  call names the entry
\* point it is in (sync, login, logout), err is the error perform_sync (or
\* login) met ("none" for Ok), ret what the call returned.  Besides the
\* locals the record keeps, for the call in progress: how the push of the
\* current entry ended (how), the entries whose push failed (failed), the
\* rows its pull has committed to the store (applied), whether another cycle
\* started before this call returned (overlapped), and both last_sync_at
\* values as they were when the call began.
IdleTask ==
    [pc |-> "idle", call |-> "none", session |-> {}, pending |-> <<>>, idx |-> 0,
     body |-> {}, fetched |-> {}, applied |-> {}, err |-> "none", ret |-> "none",
     ret_status |-> InitStatus, how |-> "none", failed |-> {}, overlapped |-> FALSE,
     pre_status_sync |-> NULL, pre_session_sync |-> NULL]

Sess(t) == CHOOSE s \in task[t].session : TRUE
Entry(t) == task[t].pending[task[t].idx]

SessionLastSync == IF 1 \in DOMAIN user_session THEN user_session[1].last_sync_at ELSE NULL

\* Positions between the check-and-set of is_syncing and the status update.
CyclePcs == {"get_session", "ensure_valid_token", "save_session", "push_list", "push_item",
             "push_send", "push_remove", "push_mark", "pull_folders", "store_folders",
             "pull_items", "store_items", "finish"}

\* Positions inside sync() after the status update.
TailPcs == {"update_last_sync", "get_status"}

\* A guard that never sees a cycle in progress.
AlreadySyncingNever(st) == FALSE

\* sync(): `if status.is_syncing { return Ok(status.clone()) }`
AlreadySyncing(st) == st.is_syncing

\* sync(): the check-and-set under the status write lock.
sync_start(t) ==
    /\ task[t].pc = "idle"
    /\ IF AlreadySyncing(status)
       THEN /\ task' = [task EXCEPT ![t] = [IdleTask EXCEPT !.pc = "done", !.call = "sync",
                                                            !.ret = "Ok",
                                                            !.ret_status = status]]
            /\ UNCHANGED status
       ELSE /\ status' = [status EXCEPT !.is_syncing = TRUE]
            /\ task' = [u \in Tasks |->
                          IF u = t
                          THEN [IdleTask EXCEPT !.pc = "get_session", !.call = "sync",
                                                !.pre_status_sync = status.last_sync_at,
                                                !.pre_session_sync = SessionLastSync]
                          ELSE IF task[u].pc \in CyclePcs \cup TailPcs
                          THEN [task[u] EXCEPT !.overlapped = TRUE]
                          ELSE task[u]]
    /\ UNCHANGED <<now, is_locked, dbVars, serverVars, store_calls, db_result>>

\* The caller has taken the value the call returned.
sync_done(t) ==
    /\ task[t].pc = "done"
    /\ task' = [task EXCEPT ![t] = IdleTask]
    /\ UNCHANGED <<now, is_locked, dbVars, status, serverVars, storeHist>>

\* An error leaves perform_sync, or login, through `?`: sync() goes on to
\* its status block, login returns the error.
Fail(t, kind) ==
    task' = [task EXCEPT ![t].pc = IF task[t].call = "sync" THEN "finish" ELSE "done",
                         ![t].err = kind,
                         ![t].ret = IF task[t].call = "sync" THEN @ ELSE "Err"]

\* A session lookup for which a missing session ends the cycle quietly.
get_session_lenient(t, fault) ==
    /\ task[t].pc = "get_session"
    /\ IF fault THEN Fail(t, "Database")
       ELSE IF 1 \notin DOMAIN user_session THEN task' = [task EXCEPT ![t].pc = "finish"]
       ELSE task' = [task EXCEPT ![t].pc = "ensure_valid_token",
                                 ![t].session = {user_session[1]}]
    /\ UNCHANGED <<now, is_locked, dbVars, status, serverVars, storeHist>>

\* perform_sync: self.db.get_session()?.ok_or(Auth("Not logged in"))?
get_session(t, fault) ==
    /\ task[t].pc = "get_session"
    /\ IF fault THEN Fail(t, "Database")
       ELSE IF 1 \notin DOMAIN user_session THEN Fail(t, "Auth")
       ELSE task' = [task EXCEPT ![t].pc = "ensure_valid_token",
                                 ![t].session = {user_session[1]}]
    /\ UNCHANGED <<now, is_locked, dbVars, status, serverVars, storeHist>>

\* A test that also refreshes a token with exactly the window left.
NeedsRefreshInclusive(expires_at, t) == expires_at <= t + SkewWindow

\* ensure_valid_token: `expires_at.timestamp() < Utc::now().timestamp() + 300`
NeedsRefresh(expires_at, t) == expires_at < t + SkewWindow

\* A token check that goes on with the stale session when the refresh fails.
ensure_valid_token_stale(t, net) ==
    /\ task[t].pc = "ensure_valid_token"
    /\ IF NeedsRefresh(Sess(t).expires_at, now) /\ net = "ok"
       THEN task' = [task EXCEPT ![t].pc = "save_session",
                        ![t].session = {UserSession(Sess(t).user_id, "tok1",
                                                    now + TokenLifetime,
                                                    Sess(t).last_sync_at)}]
       ELSE task' = [task EXCEPT ![t].pc = "push_list"]
    /\ UNCHANGED <<now, is_locked, dbVars, status, serverVars, storeHist>>

\* ensure_valid_token with refresh_token: the network call of the refresh.
\* A request that gets no response ("fail") is an Http error, a response
\* that is not a success ("rejected") an Auth error; without a refresh
\* there is no request.
ensure_valid_token(t, net) ==
    /\ task[t].pc = "ensure_valid_token"
    /\ IF NeedsRefresh(Sess(t).expires_at, now)
       THEN IF net = "ok"
            THEN task' = [task EXCEPT ![t].pc = "save_session",
                             ![t].session = {UserSession(Sess(t).user_id, "tok1",
                                                         now + TokenLifetime,
                                                         Sess(t).last_sync_at)}]
            ELSE Fail(t, IF net = "rejected" THEN "Auth" ELSE "Http")
       ELSE /\ net = "ok"
            /\ task' = [task EXCEPT ![t].pc = "push_list"]
    /\ UNCHANGED <<now, is_locked, dbVars, status, serverVars, storeHist>>

\* ensure_valid_token: self.db.save_session(&new_session)?  and login:
\* state.db.save_session(&session)?, after which login unlocks the vault
\* and initial_sync starts.
save_session(t, fault) ==
    /\ task[t].pc = "save_session"
    /\ IF fault THEN Fail(t, "Database") /\ UNCHANGED <<user_session, is_locked>>
       ELSE /\ user_session' = Put(user_session, 1, Sess(t))
            /\ is_locked' = IF task[t].call = "login" THEN FALSE ELSE is_locked
            /\ task' = [task EXCEPT ![t].pc = IF task[t].call = "login"
                                              THEN "pull_folders" ELSE "push_list"]
    /\ UNCHANGED <<now, vault_items, folders, sync_queue, sqlite_sequence, status,
                   serverVars, storeHist>>

\* Where the push loop stands once it looks at entry k of the list.
LoopPc(pending, k) ==
    IF k > Len(pending) THEN "pull_folders"
    ELSE IF pending[k].operation = "delete" THEN "push_send"
    ELSE "push_item"

\* push_changes: let pending_items = self.db.get_pending_sync_items()?
push_list(t, fault) ==
    /\ task[t].pc = "push_list"
    /\ IF fault THEN Fail(t, "Database")
       ELSE LET p == get_pending_sync_items(sync_queue) IN
            task' = [task EXCEPT ![t].pending = p, ![t].idx = 1, ![t].pc = LoopPc(p, 1)]
    /\ UNCHANGED <<now, is_locked, dbVars, status, serverVars, storeHist>>

\* A loop that gives up at the first failing entry.
OnPushResultAbort(result) == IF result = "Ok" THEN "dequeue" ELSE "abort"

\* A loop that dequeues whatever the outcome.
OnPushResultAlways(result) == "dequeue"

\* A loop that never dequeues.
OnPushResultNever(result) == "continue"

\* push_changes: `match result { Ok(_) => remove + mark, Err(e) => log::warn }`
OnPushResult(result) == IF result = "Ok" THEN "dequeue" ELSE "continue"

\* The task after the push of the current entry returned `result`; `how`
\* tells whether a request was issued and what became of it.
AfterPush(t, result, how) ==
    LET e == Entry(t)
        seen == [task[t] EXCEPT !.how = how,
                                !.failed = IF result = "Err" THEN @ \cup {e.id} ELSE @]
        todo == OnPushResult(result)
    IN  IF todo = "dequeue" THEN [seen EXCEPT !.pc = "push_remove"]
        ELSE IF todo = "continue"
        THEN [seen EXCEPT !.idx = @ + 1, !.pc = LoopPc(seen.pending, seen.idx + 1),
                          !.body = {}]
        ELSE [seen EXCEPT !.pc = "finish", !.err = "Sync"]

\* A push that sends the payload the entry captured when it was queued.
push_item_payload(t, fault) ==
    LET e == Entry(t) IN
    /\ task[t].pc = "push_item"
    /\ IF fault THEN task' = [task EXCEPT ![t] = AfterPush(t, "Err", "fault")]
       ELSE IF e.payload = {}
       THEN task' = [task EXCEPT ![t] = AfterPush(t, "Ok", "skipped")]
       ELSE task' = [task EXCEPT ![t].pc = "push_send", ![t].body = e.payload]
    /\ UNCHANGED <<now, is_locked, dbVars, status, serverVars, storeHist>>

\* push_upsert: the store read (get_vault_item / get_all_folders) of the
\* record the entry names; a missing row returns Ok without a request.
push_item(t, fault) ==
    LET e == Entry(t)
        table == IF e.table_name = "vault_items" THEN vault_items ELSE folders
    IN
    /\ task[t].pc = "push_item"
    /\ IF fault THEN task' = [task EXCEPT ![t] = AfterPush(t, "Err", "fault")]
       ELSE IF e.record_id \notin DOMAIN table
       THEN task' = [task EXCEPT ![t] = AfterPush(t, "Ok", "skipped")]
       ELSE task' = [task EXCEPT ![t].pc = "push_send", ![t].body = {table[e.record_id]}]
    /\ UNCHANGED <<now, is_locked, dbVars, status, serverVars, storeHist>>

\* push_upsert / push_delete: the request and its response.
push_send(t, net) ==
    LET e == Entry(t) IN
    /\ task[t].pc = "push_send"
    /\ IF net = "ok"
       THEN /\ task' = [task EXCEPT ![t] = AfterPush(t, "Ok", "acked")]
            /\ IF e.operation = "delete"
               THEN IF e.table_name = "vault_items"
                    THEN server_items' = Del(server_items, e.record_id)
                         /\ UNCHANGED server_folders
                    ELSE server_folders' = Del(server_folders, e.record_id)
                         /\ UNCHANGED server_items
               ELSE LET row == CHOOSE r \in task[t].body : TRUE IN
                    IF e.table_name = "vault_items"
                    THEN server_items' = Put(server_items, e.record_id,
                                             ServerItem(row, Sess(t).user_id, now))
                         /\ UNCHANGED server_folders
                    ELSE server_folders' = Put(server_folders, e.record_id,
                                               ServerFolder(row, Sess(t).user_id, now))
                         /\ UNCHANGED server_items
       ELSE /\ task' = [task EXCEPT ![t] = AfterPush(t, "Err", "failed")]
            /\ UNCHANGED serverVars
    /\ UNCHANGED <<now, is_locked, dbVars, status, storeHist>>

\* push_changes: self.db.remove_from_sync_queue(item.id)?
push_remove(t, fault) ==
    /\ task[t].pc = "push_remove"
    /\ IF fault THEN Fail(t, "Database") /\ UNCHANGED sync_queue
       ELSE /\ sync_queue' = remove_from_sync_queue(sync_queue, Entry(t).id)
            /\ task' = [task EXCEPT ![t].pc = "push_mark"]
    /\ UNCHANGED <<now, is_locked, vault_items, folders, sqlite_sequence, user_session, status,
                   serverVars, storeHist>>

\* push_changes: self.db.mark_item_synced(&item.table_name, &item.record_id)?
push_mark(t, fault) ==
    LET e == Entry(t) IN
    /\ task[t].pc = "push_mark"
    /\ IF fault THEN Fail(t, "Database") /\ UNCHANGED <<vault_items, folders>>
       ELSE /\ IF e.table_name = "vault_items"
               THEN vault_items' = mark_item_synced_items(vault_items, e.record_id, now)
                    /\ UNCHANGED folders
               ELSE folders' = mark_item_synced_folders(folders, e.record_id, now)
                    /\ UNCHANGED vault_items
            /\ task' = [task EXCEPT ![t].idx = @ + 1,
                                    ![t].pc = LoopPc(task[t].pending, task[t].idx + 1),
                                    ![t].body = {}]
    /\ UNCHANGED <<now, is_locked, sync_queue, sqlite_sequence, user_session, status,
                   serverVars, storeHist>>

\* The `since` argument of the pull: pull_changes passes
\* session.last_sync_at, initial_sync passes None.
Since(t) == IF task[t].call = "login" THEN NULL ELSE Sess(t).last_sync_at

\* pull_folders: the GET and its response.
pull_folders(t, net) ==
    /\ task[t].pc = "pull_folders"
    /\ IF net = "ok"
       THEN task' = [task EXCEPT ![t].pc = "store_folders",
                        ![t].fetched = RemoteList(server_folders, Sess(t).user_id,
                                                  Since(t))]
       ELSE Fail(t, "Sync")
    /\ UNCHANGED <<now, is_locked, dbVars, status, serverVars, storeHist>>

\* A batch whose statements each commit on their own.
TransactionAutocommit(before, after, committed) == after

\* rusqlite Transaction: tx.commit() makes the statements' effect visible; a
\* transaction dropped before commit (a `?` on a failing statement) rolls
\* back.
Transaction(before, after, committed) == IF committed THEN after ELSE before

\* db.rs bulk_upsert_folders: INSERT OR REPLACE of every row.
bulk_upsert_folders(fs, rows) ==
    [x \in (DOMAIN fs) \cup {r.id : r \in rows} |->
        IF \E r \in rows : r.id = x THEN CHOOSE r \in rows : r.id = x ELSE fs[x]]

\* pull_folders: map the rows and self.db.bulk_upsert_folders(&folders)?
\* A storage fault hits after the statements of some of the rows (done).
store_folders(t, fault) ==
    LET rows == {Folder(f.id, f.name, now, f.updated_at) : f \in task[t].fetched} IN
    /\ task[t].pc = "store_folders"
    /\ IF fault
       THEN /\ \E done \in SUBSET rows :
                   folders' = Transaction(folders, bulk_upsert_folders(folders, done),
                                          FALSE)
            /\ Fail(t, "Database")
       ELSE /\ folders' = Transaction(folders, bulk_upsert_folders(folders, rows), TRUE)
            /\ task' = [task EXCEPT ![t].pc = "pull_items", ![t].fetched = {},
                                    ![t].applied = @ \cup rows]
    /\ UNCHANGED <<now, is_locked, vault_items, sync_queue, sqlite_sequence, user_session, status,
                   serverVars, storeHist>>

\* pull_vault_items: the GET and its response.
pull_items(t, net) ==
    /\ task[t].pc = "pull_items"
    /\ IF net = "ok"
       THEN task' = [task EXCEPT ![t].pc = "store_items",
                        ![t].fetched = RemoteList(server_items, Sess(t).user_id,
                                                  Since(t))]
       ELSE Fail(t, "Sync")
    /\ UNCHANGED <<now, is_locked, dbVars, status, serverVars, storeHist>>

\* An upsert that counts the replacement of a row in local_updated_at.
bulk_upsert_vault_items_bump(items, rows) ==
    [x \in (DOMAIN items) \cup {r.id : r \in rows} |->
        IF \E r \in rows : r.id = x
        THEN LET r == CHOOSE r \in rows : r.id = x IN
             IF x \in DOMAIN items
             THEN [r EXCEPT !.local_updated_at = items[x].local_updated_at + 1]
             ELSE r
        ELSE items[x]]

\* An upsert that keeps a local row edited after the fetched version was
\* written.
bulk_upsert_vault_items_newer(items, rows) ==
    [x \in (DOMAIN items) \cup {r.id : r \in rows} |->
        IF \E r \in rows : r.id = x
        THEN LET r == CHOOSE r \in rows : r.id = x IN
             IF x \in DOMAIN items /\ items[x].local_updated_at > r.server_updated_at
             THEN items[x]
             ELSE r
        ELSE items[x]]

\* db.rs bulk_upsert_vault_items: INSERT OR REPLACE of every row.
bulk_upsert_vault_items(items, rows) ==
    [x \in (DOMAIN items) \cup {r.id : r \in rows} |->
        IF \E r \in rows : r.id = x THEN CHOOSE r \in rows : r.id = x ELSE items[x]]

\* pull_vault_items: map the rows and self.db.bulk_upsert_vault_items(&items)?
\* After it pull_changes returns to sync()'s status block, initial_sync goes
\* on to clear the queue.
store_items(t, fault) ==
    LET rows == {[VaultItem(i.id, i.encrypted_data, i.folder_id, FALSE, i.deleted_at,
                            now, i.updated_at, i.updated_at)
                     EXCEPT !.item_type = i.item_type] : i \in task[t].fetched}
    IN
    /\ task[t].pc = "store_items"
    /\ IF fault
       THEN /\ \E done \in SUBSET rows :
                   vault_items' = Transaction(vault_items,
                                              bulk_upsert_vault_items(vault_items, done),
                                              FALSE)
            /\ Fail(t, "Database")
       ELSE /\ vault_items' = Transaction(vault_items,
                                          bulk_upsert_vault_items(vault_items, rows), TRUE)
            /\ task' = [task EXCEPT ![t].pc = IF task[t].call = "login"
                                              THEN "clear_sync_queue" ELSE "finish",
                                    ![t].fetched = {},
                                    ![t].applied = @ \cup rows]
    /\ UNCHANGED <<now, is_locked, folders, sync_queue, sqlite_sequence, user_session, status,
                   serverVars, storeHist>>

\* A status block that is skipped when perform_sync failed.
StatusAfterOnlyOk(st, ok, t) ==
    IF ok THEN [st EXCEPT !.is_syncing = FALSE, !.last_sync_at = t] ELSE st

\* A status block that stamps last_sync_at whatever the result.
StatusAfterAlways(st, ok, t) ==
    [st EXCEPT !.is_syncing = FALSE, !.last_sync_at = t]

\* sync(): the status block after perform_sync.
StatusAfter(st, ok, t) ==
    [st EXCEPT !.is_syncing = FALSE, !.last_sync_at = IF ok THEN t ELSE @]

\* sync(): the status update after perform_sync, and the Err return.
finish(t) ==
    /\ task[t].pc = "finish"
    /\ status' = StatusAfter(status, task[t].err = "none", now)
    /\ IF task[t].err = "none"
       THEN task' = [task EXCEPT ![t].pc = "update_last_sync"]
       ELSE task' = [task EXCEPT ![t].pc = "done", ![t].ret = "Err",
                                 ![t].ret_status = status']
    /\ UNCHANGED <<now, is_locked, dbVars, serverVars, storeHist>>

\* db.rs update_last_sync: UPDATE user_session SET last_sync_at = now WHERE id = 1
update_last_sync_row(sess, t) ==
    [x \in DOMAIN sess |-> [sess[x] EXCEPT !.last_sync_at = t]]

\* sync() and initial_sync: self.db.update_last_sync()?  sync() goes on to
\* read the status, initial_sync returns Ok and so does login.
update_last_sync(t, fault) ==
    /\ task[t].pc = "update_last_sync"
    /\ IF fault
       THEN /\ task' = [task EXCEPT ![t].pc = "done", ![t].ret = "Err",
                                    ![t].ret_status = status]
            /\ UNCHANGED user_session
       ELSE /\ user_session' = update_last_sync_row(user_session, now)
            /\ task' = IF task[t].call = "login"
                       THEN [task EXCEPT ![t].pc = "done", ![t].ret = "Ok"]
                       ELSE [task EXCEPT ![t].pc = "get_status"]
    /\ UNCHANGED <<now, is_locked, vault_items, folders, sync_queue, sqlite_sequence, status,
                   serverVars, storeHist>>

\* get_status: the status block with pending_changes read from the store;
\* a failed read counts as an empty list (unwrap_or_default).
get_status(st, q, fault) ==
    [is_syncing |-> st.is_syncing, last_sync_at |-> st.last_sync_at,
     pending_changes |-> IF fault THEN 0 ELSE Len(get_pending_sync_items(q)),
     is_online |-> st.is_online]

\* sync(): Ok(self.get_status().await)
sync_return(t, fault) ==
    /\ task[t].pc = "get_status"
    /\ task' = [task EXCEPT ![t].pc = "done", ![t].ret = "Ok",
                            ![t].ret_status = get_status(status, sync_queue, fault)]
    /\ UNCHANGED <<now, is_locked, dbVars, status, serverVars, storeHist>>

\* A sync() that keeps its write guard on the status from the check-and-set
\* to the final update.
StatusLockWholeCycle == CyclePcs

\* sync(): the positions at which the caller holds the status write guard
\* across an await.  Both guards live in a block of their own that ends
\* before perform_sync is called and before `result?`.
StatusLockPcs == {}

\* commands.rs get_sync_status with SyncEngine::get_status: the status read
\* lock, then the outbox read.  The read lock waits for a writer's guard.
get_sync_status(t, fault) ==
    /\ task[t].pc = "idle"
    /\ \A u \in Tasks : task[u].pc \notin StatusLockPcs
    /\ task' = [task EXCEPT ![t] =
                    [IdleTask EXCEPT !.pc = "done", !.call = "status", !.ret = "Ok",
                                     !.ret_status = get_status(status, sync_queue, fault)]]
    /\ UNCHANGED <<now, is_locked, dbVars, status, serverVars, storeHist>>

\* A probe that rebuilds the status block around its result.
ProbeStatusReset(st, online) == [InitStatus EXCEPT !.is_online = online]

\* check_connectivity: `status.is_online = online` under the write lock.
ProbeStatus(st, online) == [st EXCEPT !.is_online = online]

\* What the backend root answers to the probe.
ProbeAnswers == {"200", "401", "500", "fail"}

\* check_connectivity: the HEAD request to the backend root and the status
\* write that follows its answer; a success status and 401 count as online.
check_connectivity(answer) ==
    /\ \A u \in Tasks : task[u].pc \notin StatusLockPcs
    /\ status' = ProbeStatus(status, answer \in {"200", "401"})
    /\ UNCHANGED <<now, is_locked, dbVars, task, serverVars, storeHist>>

Net == {"ok", "fail"}

\* commands.rs login: sync_engine.authenticate(email, password_hash), the
\* request and its response.  The session the backend grants has never
\* synced.
authenticate(t, net) ==
    /\ task[t].pc = "idle"
    /\ IF net = "ok"
       THEN task' = [task EXCEPT ![t] =
                        [IdleTask EXCEPT !.pc = "save_session", !.call = "login",
                                         !.session = {UserSession(UserId, "tok1",
                                                                  now + TokenLifetime,
                                                                  NULL)}]]
       ELSE task' = [task EXCEPT ![t] =
                        [IdleTask EXCEPT !.pc = "done", !.call = "login", !.ret = "Err",
                                         !.err = IF net = "rejected" THEN "Auth"
                                                 ELSE "Http"]]
    /\ UNCHANGED <<now, is_locked, dbVars, status, serverVars, storeHist>>

\* db.rs clear_sync_queue, called by initial_sync: DELETE FROM sync_queue
clear_sync_queue(t, fault) ==
    /\ task[t].pc = "clear_sync_queue"
    /\ IF fault THEN Fail(t, "Database") /\ UNCHANGED sync_queue
       ELSE /\ sync_queue' = EmptyTable
            /\ task' = [task EXCEPT ![t].pc = "update_last_sync"]
    /\ UNCHANGED <<now, is_locked, vault_items, folders, sqlite_sequence, user_session, status,
                   serverVars, storeHist>>

\* The statement of clear_all_data's batch a storage fault hits, if any.
Faults4 == {"none", "stmt1", "stmt2", "stmt3", "stmt4"}

\* A wipe that leaves the session row.
clear_all_data_keep_session(fault) ==
    /\ vault_items' = EmptyTable
    /\ folders' = EmptyTable
    /\ sync_queue' = EmptyTable
    /\ UNCHANGED <<user_session, sqlite_sequence>>

\* db.rs clear_all_data: execute_batch of four DELETEs, each committed as
\* it completes; the batch stops at the first one that fails.
clear_all_data(fault) ==
    /\ vault_items' = IF fault = "stmt1" THEN vault_items ELSE EmptyTable
    /\ folders' = IF fault \in {"stmt1", "stmt2"} THEN folders ELSE EmptyTable
    /\ sync_queue' = IF fault \in {"stmt1", "stmt2", "stmt3"} THEN sync_queue
                     ELSE EmptyTable
    /\ user_session' = IF fault = "none" THEN EmptyTable ELSE user_session
    /\ UNCHANGED sqlite_sequence

\* commands.rs logout with SyncEngine::logout: the vault is locked, then
\* self.db.clear_all_data()?
logout(t, fault) ==
    /\ task[t].pc = "idle"
    /\ is_locked' = TRUE
    /\ clear_all_data(fault)
    /\ task' = [task EXCEPT ![t] =
                    [IdleTask EXCEPT !.pc = "done", !.call = "logout",
                                     !.ret = IF fault = "none" THEN "Ok" ELSE "Err",
                                     !.err = IF fault = "none" THEN "none"
                                             ELSE "Database"]]
    /\ UNCHANGED <<now, status, serverVars, storeHist>>

\* Any one step of a caller inside sync().
CycleStep(t) ==
    \/ sync_done(t)
    \/ \E fault \in BOOLEAN : get_session(t, fault)
    \/ \E net \in Net \cup {"rejected"} : ensure_valid_token(t, net)
    \/ \E fault \in BOOLEAN : save_session(t, fault)
    \/ \E fault \in BOOLEAN : push_list(t, fault)
    \/ \E fault \in BOOLEAN : push_item(t, fault)
    \/ \E net \in Net : push_send(t, net)
    \/ \E fault \in BOOLEAN : push_remove(t, fault)
    \/ \E fault \in BOOLEAN : push_mark(t, fault)
    \/ \E net \in Net : pull_folders(t, net)
    \/ \E fault \in BOOLEAN : store_folders(t, fault)
    \/ \E net \in Net : pull_items(t, net)
    \/ \E fault \in BOOLEAN : store_items(t, fault)
    \/ finish(t)
    \/ \E fault \in BOOLEAN : update_last_sync(t, fault)
    \/ \E fault \in BOOLEAN : sync_return(t, fault)

\* A call of sync(), at most MaxCycles of which start a cycle.
CountedStart(t) ==
    /\ status.is_syncing \/ cycles < MaxCycles
    /\ sync_start(t)
    /\ cycles' = IF status.is_syncing THEN cycles ELSE cycles + 1

\* The edits a user makes while syncs run: every mutator, one content each.
UserEdit ==
    \/ \E id \in ItemIds, fault \in Faults2 :
            insert_vault_item(id, "d1", NoFolder, TRUE, fault)
    \/ \E id \in ItemIds, fault \in Faults2 :
            update_vault_item(id, "d2", "f", FALSE, fault)
    \/ \E id \in ItemIds, fault \in Faults2 : soft_delete_vault_item(id, fault)
    \/ \E id \in ItemIds, fault \in Faults2 : restore_vault_item(id, fault)
    \/ \E id \in ItemIds, fault \in Faults2 : permanently_delete_vault_item(id, fault)
    \/ \E id \in FolderIds, fault \in Faults2 : insert_folder(id, "n1", fault)
    \/ \E id \in FolderIds, fault \in Faults2 : update_folder(id, "n2", fault)
    \/ \E id \in FolderIds, fault \in Faults3 : delete_folder(id, fault)

\* ------------------------------------------------------- command layer
\* A gate that lets every call through.
check_locked_open(locked) == "Ok"

\* commands.rs check_locked
check_locked(locked) == IF locked THEN "VaultLocked" ELSE "Ok"

\* A command that begins `let locked = state.is_locked.read().await;
\* check_locked(*locked)?` and then makes Call; the read guard lives until
\* the command returns.
GatedCommand(Call) ==
    IF check_locked(is_locked) = "Ok"
    THEN Call
    ELSE /\ db_result' = "VaultLocked"
         /\ UNCHANGED <<now, dbVars, status, task, serverVars, cycles, store_calls,
                        is_locked>>

\* commands.rs create_vault_item .. delete_folder: the mutating commands,
\* one record of each table, the store working.
StoreCommand ==
    GatedCommand(\/ insert_vault_item("a", "d1", NoFolder, TRUE, "none")
                 \/ update_vault_item("a", "d2", "f", FALSE, "none")
                 \/ soft_delete_vault_item("a", "none")
                 \/ restore_vault_item("a", "none")
                 \/ permanently_delete_vault_item("a", "none")
                 \/ insert_folder("f", "n1", "none")
                 \/ update_folder("f", "n2", "none")
                 \/ delete_folder("f", "none"))

\* commands.rs get_vault_items, get_trashed_items, get_vault_item,
\* get_folders: the listing is returned to the caller.
ReadCommand ==
    GatedCommand(/\ db_result' = "Ok"
                 /\ UNCHANGED <<now, dbVars, status, task, serverVars, cycles,
                                store_calls, is_locked>>)

\* commands.rs sync_vault
sync_vault(t) == GatedCommand(CountedStart(t))

\* commands.rs get_session and has_stored_session: state.db.get_session()
\* with no check_locked; the stored session (or whether there is one) is
\* returned.
SessionCommand ==
    /\ db_result' = "Ok"
    /\ UNCHANGED <<now, dbVars, status, task, serverVars, cycles, store_calls,
                   is_locked>>

\* sync_vault keeps its read guard on is_locked while sync() runs, so a
\* writer of is_locked waits until it has returned.
GuardHeld == \E t \in Tasks : task[t].call = "sync"

\* commands.rs unlock_vault: needs the stored session and the master key
\* hash that matches the keyring's.
unlock_vault(matches) ==
    /\ ~GuardHeld
    /\ IF 1 \in DOMAIN user_session /\ matches
       THEN is_locked' = FALSE /\ db_result' = "Ok"
       ELSE UNCHANGED is_locked /\ db_result' = "Err"
    /\ UNCHANGED <<now, dbVars, status, task, serverVars, cycles, store_calls>>

\* commands.rs lock_vault
lock_vault ==
    /\ ~GuardHeld
    /\ is_locked' = TRUE
    /\ db_result' = "Ok"
    /\ UNCHANGED <<now, dbVars, status, task, serverVars, cycles, store_calls>>

\* The sessions an earlier run may have left in the store: expires_at and
\* last_sync_at.  The token is good for SkewWindow more seconds or is about
\* to expire; the earlier run has synced or has not.
StoredSessions == {<<SkewWindow, NULL>>, <<SkewWindow, 0>>, <<0, NULL>>}

\* A store opened on a fresh file, or on one that holds the session of an
\* earlier run; the engine as SyncEngine::new builds it.
Init ==
    /\ now = 0
    /\ vault_items = EmptyTable
    /\ folders = EmptyTable
    /\ sync_queue = EmptyTable
    /\ sqlite_sequence = 0
    /\ user_session \in
           {EmptyTable} \cup
           {Put(EmptyTable, 1, UserSession(UserId, "tok0", ss[1], ss[2])) :
                ss \in StoredSessions}
    /\ status = InitStatus
    /\ task = [t \in Tasks |-> IdleTask]
    /\ server_items = EmptyTable
    /\ server_folders = EmptyTable
    /\ cycles = 0
    /\ store_calls = 0
    /\ db_result = "none"
    /\ is_locked = (1 \notin DOMAIN user_session)

\* One caller of sync() beside the user's edits.
Next ==
    \/ Tick
    \/ UserEdit
    \/ CountedStart("t1")
    \/ CycleStep("t1")

Spec == Init /\ [][Next]_vars

\* The Local Store alone, under every input.
NextStore ==
    \/ Tick
    \/ StoreMutation

SpecStore == Init /\ [][NextStore]_vars

\* A logged-in user whose token is not about to expire.
InitOnline ==
    /\ Init
    /\ 1 \in DOMAIN user_session
    /\ user_session[1].expires_at = SkewWindow

\* One caller of sync() beside a user who creates items.
NextCreate ==
    \/ Tick
    \/ \E id \in ItemIds : insert_vault_item(id, "d1", NoFolder, TRUE, "none")
    \/ CountedStart("t1")
    \/ CycleStep("t1")

SpecCreate == InitOnline /\ [][NextCreate]_vars

\* One caller of sync() beside a user who creates an item and purges it.
NextPurge ==
    \/ Tick
    \/ insert_vault_item("a", "d1", NoFolder, TRUE, "none")
    \/ permanently_delete_vault_item("a", "none")
    \/ CountedStart("t1")
    \/ CycleStep("t1")

SpecPurge == InitOnline /\ [][NextPurge]_vars

\* A call of sync() by one of several callers, each of which may start
\* MaxCycles cycles.
ConcStart(t) ==
    /\ status.is_syncing \/ cycles < MaxCycles * Cardinality(Tasks)
    /\ sync_start(t)
    /\ cycles' = IF status.is_syncing THEN cycles ELSE cycles + 1

\* The item a logged-in user created while offline.
OfflineItem == VaultItem("a", "d1", NoFolder, TRUE, NULL, NULL, 0, NULL)

\* The store after insert_vault_item(OfflineItem) on a store that holds a
\* session.
InitConc ==
    /\ now = 0
    /\ vault_items = Put(EmptyTable, "a", OfflineItem)
    /\ folders = EmptyTable
    /\ sync_queue = add_to_sync_queue_internal(EmptyTable, 0, "create", "vault_items",
                                               "a", {OfflineItem}, 0)
    /\ sqlite_sequence = 1
    /\ user_session \in {Put(EmptyTable, 1, UserSession(UserId, "tok0", ss[1], ss[2])) :
                            ss \in StoredSessions}
    /\ status = InitStatus
    /\ task = [t \in Tasks |-> IdleTask]
    /\ server_items = EmptyTable
    /\ server_folders = EmptyTable
    /\ cycles = 0
    /\ store_calls = 1
    /\ db_result = "Ok"
    /\ is_locked = FALSE

\* Two callers of sync(), interleaved at every step.
NextConc ==
    \/ \E t \in Tasks : ConcStart(t)
    \/ \E t \in Tasks : CycleStep(t)

SpecConc == InitConc /\ [][NextConc]_vars

\* A call of sync(), made again and again.
LiveStart(t) == sync_start(t) /\ UNCHANGED cycles

\* The user creates, edits and purges an item.
LiveEdit ==
    \/ insert_vault_item("a", "d1", NoFolder, TRUE, "none")
    \/ update_vault_item("a", "d2", "f", FALSE, "none")
    \/ permanently_delete_vault_item("a", "none")

\* Any one step of a caller inside sync() while the store works: requests
\* may fail, store calls do not.
LiveStep(t) ==
    \/ sync_done(t)
    \/ get_session(t, FALSE)
    \/ \E net \in Net : ensure_valid_token(t, net)
    \/ save_session(t, FALSE)
    \/ push_list(t, FALSE)
    \/ push_item(t, FALSE)
    \/ \E net \in Net : push_send(t, net)
    \/ push_remove(t, FALSE)
    \/ push_mark(t, FALSE)
    \/ \E net \in Net : pull_folders(t, net)
    \/ store_folders(t, FALSE)
    \/ \E net \in Net : pull_items(t, net)
    \/ store_items(t, FALSE)
    \/ finish(t)
    \/ update_last_sync(t, FALSE)
    \/ sync_return(t, FALSE)

\* A logged-in user.
InitLive == Init /\ 1 \in DOMAIN user_session

NextLive ==
    \/ LiveEdit
    \/ LiveStart("t1")
    \/ LiveStep("t1")

\* sync() keeps being called and each call runs on (the async runtime polls
\* the future to completion); a token refresh and a push request that are
\* tried again and again eventually succeed.
FairLive ==
    /\ WF_vars(LiveStart("t1"))
    /\ WF_vars(LiveStep("t1"))
    /\ SF_vars(ensure_valid_token("t1", "ok"))
    /\ SF_vars(push_send("t1", "ok"))

SpecLive == InitLive /\ [][NextLive]_vars /\ FairLive

\* The same with the pull's requests, too, eventually succeeding: every
\* remote call that is tried again and again succeeds at some time.  The
\* user's edits stop (MaxStoreCalls of them are made at most) and no other
\* client writes to the backend.
SpecQuiet ==
    /\ SpecLive
    /\ SF_vars(pull_folders("t1", "ok"))
    /\ SF_vars(pull_items("t1", "ok"))

\* What the backend holds for the user when this device first connects:
\* a folder and two items, written from another device.
SeedFolders == Put(EmptyTable, "f", ServerFolder(Folder("f", "n1", NULL, 0), UserId, 0))
SeedItems ==
    [id \in ItemIds |->
        ServerItem(VaultItem(id, "d2", IF id = "b" THEN "f" ELSE NoFolder, FALSE,
                             NULL, NULL, 0, NULL), UserId, 0)]

\* A fresh install: an empty store, nobody logged in; the backend holds
\* nothing for the user or holds the seed rows.
InitSession ==
    /\ now = 0
    /\ vault_items = EmptyTable
    /\ folders = EmptyTable
    /\ sync_queue = EmptyTable
    /\ sqlite_sequence = 0
    /\ user_session = EmptyTable
    /\ status = InitStatus
    /\ task = [t \in Tasks |-> IdleTask]
    /\ \E seeded \in BOOLEAN :
           /\ server_items = IF seeded THEN SeedItems ELSE EmptyTable
           /\ server_folders = IF seeded THEN SeedFolders ELSE EmptyTable
    /\ cycles = 0
    /\ store_calls = 0
    /\ db_result = "none"
    /\ is_locked = TRUE

\* The steps of login and logout that are not steps of sync().
SessionStep(t) ==
    \/ \E net \in Net \cup {"rejected"} : authenticate(t, net)
    \/ \E fault \in BOOLEAN : clear_sync_queue(t, fault)
    \/ \E fault \in Faults4 : logout(t, fault)

\* One caller that logs in, syncs and logs out, beside a user who creates
\* an item once login has saved the session and unlocked the vault.
NextSession ==
    \/ SessionStep("t1")
    \/ CountedStart("t1")
    \/ CycleStep("t1")
    \/ /\ ~is_locked
       /\ insert_vault_item("a", "d1", NoFolder, TRUE, "none")

SpecSession == InitSession /\ [][NextSession]_vars

\* The login command of one window beside the sync_vault command of another.
NextOverlap ==
    \/ \E net \in Net \cup {"rejected"} : authenticate("t1", net)
    \/ CycleStep("t1")
    \/ \E fault \in BOOLEAN : clear_sync_queue("t1", fault)
    \/ sync_vault("t2")
    \/ CycleStep("t2")
    \/ /\ ~is_locked
       /\ insert_vault_item("a", "d1", NoFolder, TRUE, "none")

SpecOverlap == InitSession /\ [][NextOverlap]_vars

\* A logged-in user who created an item offline and whose token has one
\* second less than the window left, exactly the window, or one second more.
InitToken ==
    /\ now = 0
    /\ vault_items = Put(EmptyTable, "a", OfflineItem)
    /\ folders = EmptyTable
    /\ sync_queue = add_to_sync_queue_internal(EmptyTable, 0, "create", "vault_items",
                                               "a", {OfflineItem}, 0)
    /\ sqlite_sequence = 1
    /\ user_session \in
           {Put(EmptyTable, 1, UserSession(UserId, "tok0", SkewWindow + d, NULL)) :
                d \in {-1, 0, 1}}
    /\ status = InitStatus
    /\ task = [t \in Tasks |-> IdleTask]
    /\ server_items = EmptyTable
    /\ server_folders = EmptyTable
    /\ cycles = 0
    /\ store_calls = 1
    /\ db_result = "Ok"
    /\ is_locked = FALSE

\* One caller of sync() while the clock runs.
NextToken ==
    \/ Tick
    \/ CountedStart("t1")
    \/ CycleStep("t1")

SpecToken == InitToken /\ [][NextToken]_vars

\* One caller of sync() beside a user who edits the item created offline.
NextEdit ==
    \/ NextToken
    \/ update_vault_item("a", "d2", "f", FALSE, "none")

SpecEdit == InitToken /\ [][NextEdit]_vars

\* Another client of the same user writes item b to the backend, which
\* stamps the row's updated_at.
RemoteWrite ==
    /\ server_items' = Put(server_items, "b",
                           ServerItem(VaultItem("b", "d2", NoFolder, FALSE, NULL, NULL,
                                                now, NULL), UserId, now))
    /\ UNCHANGED <<now, is_locked, dbVars, status, task, server_folders, storeHist>>

\* One caller of sync() while the clock runs and the other client writes.
NextRemote ==
    \/ NextToken
    \/ RemoteWrite

SpecRemote == InitToken /\ [][NextRemote]_vars

\* The same caller and clock beside a user interface that polls the status
\* and probes the backend.
NextStatus ==
    \/ NextToken
    \/ \E fault \in BOOLEAN : get_sync_status("t2", fault)
    \/ sync_done("t2")
    \/ \E answer \in ProbeAnswers : check_connectivity(answer)

SpecStatus == InitToken /\ [][NextStatus]_vars

\* The same, every network and storage call of the cycle returning at some
\* time, with a result or with an error.
SpecReturn == InitToken /\ [][NextToken]_vars /\ WF_vars(CycleStep("t1"))

\* The item a user created and moved to the trash in an earlier run.
TrashedItem == VaultItem("a", "d1", NoFolder, TRUE, 0, NULL, 0, NULL)

\* The store after insert_vault_item and soft_delete_vault_item of that
\* item, both entries still queued.
InitTrash ==
    /\ now = 0
    /\ vault_items = Put(EmptyTable, "a", TrashedItem)
    /\ folders = EmptyTable
    /\ sync_queue =
           add_to_sync_queue_internal(
               add_to_sync_queue_internal(EmptyTable, 0, "create", "vault_items", "a",
                                          {[TrashedItem EXCEPT !.deleted_at = NULL]}, 0),
               1, "update", "vault_items", "a", {}, 0)
    /\ sqlite_sequence = 2
    /\ user_session = Put(EmptyTable, 1, UserSession(UserId, "tok0", SkewWindow, NULL))
    /\ status = InitStatus
    /\ task = [t \in Tasks |-> IdleTask]
    /\ server_items = EmptyTable
    /\ server_folders = EmptyTable
    /\ cycles = 0
    /\ store_calls = 0
    /\ db_result = "none"
    /\ is_locked = FALSE

\* The Local Store under every input, an item already in the trash.
SpecTrash == InitTrash /\ [][NextStore]_vars

\* A synced store that holds folder f with item a in it; item b is absent,
\* in f as well, or in no folder.
InitFolder ==
    /\ now = 0
    /\ \E bs \in {{}, {"f"}, {NoFolder}} :
           vault_items = [id \in {"a"} \cup {"b" : x \in bs} |->
                             VaultItem(id, "d1",
                                       IF id = "a" THEN "f" ELSE CHOOSE x \in bs : TRUE,
                                       TRUE, NULL, 0, 0, 0)]
    /\ folders = Put(EmptyTable, "f", Folder("f", "n1", 0, 0))
    /\ sync_queue = EmptyTable
    /\ sqlite_sequence = 0
    /\ user_session = Put(EmptyTable, 1, UserSession(UserId, "tok0", SkewWindow, 0))
    /\ status = InitStatus
    /\ task = [t \in Tasks |-> IdleTask]
    /\ server_items = EmptyTable
    /\ server_folders = EmptyTable
    /\ cycles = 0
    /\ store_calls = 0
    /\ db_result = "none"
    /\ is_locked = FALSE

SpecFolder == InitFolder /\ [][NextStore]_vars

\* A pull about to start, full fetch (last_sync_at unset), under every store
\* and backend content of the value sets: each item is absent, live or in
\* the trash locally, and absent, live or tombstoned on the backend; the
\* folder is absent or present on either side.  The local rows were last
\* edited before or after the backend's rows were written, and the update
\* entry of item a is still queued (its push failed) or is not.
InitBulk ==
    /\ now = 1
    /\ \E S \in SUBSET ItemIds, D \in SUBSET ItemIds, edited \in {0, 1} :
           vault_items = [id \in S |->
                             VaultItem(id, "d1", NoFolder, TRUE,
                                       IF id \in D THEN 0 ELSE NULL, NULL, edited, NULL)]
    /\ folders \in {EmptyTable, Put(EmptyTable, "f", Folder("f", "n2", NULL, 0))}
    /\ \E queued \in BOOLEAN :
           /\ sync_queue = IF queued /\ "a" \in DOMAIN vault_items
                           THEN add_to_sync_queue_internal(
                                    EmptyTable, 0, "update", "vault_items", "a",
                                    {vault_items["a"]}, vault_items["a"].local_updated_at)
                           ELSE EmptyTable
           /\ sqlite_sequence = IF queued /\ "a" \in DOMAIN vault_items THEN 1 ELSE 0
    /\ user_session = Put(EmptyTable, 1, UserSession(UserId, "tok0", TokenLifetime, NULL))
    /\ status = [InitStatus EXCEPT !.is_syncing = TRUE]
    /\ task = [t \in Tasks |->
                  IF t = "t1"
                  THEN [IdleTask EXCEPT !.pc = "pull_folders", !.call = "sync",
                                        !.session = {user_session[1]}]
                  ELSE IdleTask]
    /\ \E S \in SUBSET ItemIds, D \in SUBSET ItemIds :
           server_items = [id \in S |->
                              ServerItem(VaultItem(id, "d2", "f", FALSE,
                                                   IF id \in D THEN 0 ELSE NULL,
                                                   NULL, 0, NULL), UserId, 0)]
    /\ server_folders \in {EmptyTable, SeedFolders}
    /\ cycles = 1
    /\ store_calls = 0
    /\ db_result = "none"
    /\ is_locked = FALSE

\* The pull phase of that cycle.
NextBulk ==
    \/ \E net \in Net : pull_folders("t1", net)
    \/ \E fault \in BOOLEAN : store_folders("t1", fault)
    \/ \E net \in Net : pull_items("t1", net)
    \/ \E fault \in BOOLEAN : store_items("t1", fault)

SpecBulk == InitBulk /\ [][NextBulk]_vars

\* The application as AppState::new leaves it (vault locked) over a store
\* that is fresh or holds an earlier login's session, its token expired
\* since, and item.
InitLock ==
    /\ now = 0
    /\ \E stored \in BOOLEAN :
           /\ vault_items = IF stored
                            THEN Put(EmptyTable, "a",
                                     VaultItem("a", "d1", NoFolder, TRUE, NULL, 0, 0, 0))
                            ELSE EmptyTable
           /\ user_session = IF stored
                             THEN Put(EmptyTable, 1,
                                      UserSession(UserId, "tok0", 0, 0))
                             ELSE EmptyTable
    /\ folders = EmptyTable
    /\ sync_queue = EmptyTable
    /\ sqlite_sequence = 0
    /\ status = InitStatus
    /\ task = [t \in Tasks |-> IdleTask]
    /\ server_items = EmptyTable
    /\ server_folders = EmptyTable
    /\ cycles = 0
    /\ store_calls = 0
    /\ db_result = "none"
    /\ is_locked = TRUE

\* The commands a user interface issues, and the steps of the sync cycle
\* sync_vault started.
NextLock ==
    \/ \E matches \in BOOLEAN : unlock_vault(matches)
    \/ lock_vault
    \/ StoreCommand
    \/ ReadCommand
    \/ SessionCommand
    \/ sync_vault("t1")
    \/ LiveStep("t1")

SpecLock == InitLock /\ [][NextLock]_vars

\* One login, and a logout issued from another window while the login's
\* initial sync is running.  login holds no guard on is_locked while
\* initial_sync runs, so logout does not wait for it.
NextWipe ==
    \/ \E net \in Net : authenticate("t1", net)
    \/ \E fault \in BOOLEAN : save_session("t1", fault)
    \/ \E net \in Net : pull_folders("t1", net)
    \/ \E fault \in BOOLEAN : store_folders("t1", fault)
    \/ \E net \in Net : pull_items("t1", net)
    \/ \E fault \in BOOLEAN : store_items("t1", fault)
    \/ \E fault \in BOOLEAN : clear_sync_queue("t1", fault)
    \/ \E fault \in BOOLEAN : update_last_sync("t1", fault)
    \/ /\ task["t1"].call = "login"
       /\ task["t1"].pc \in {"pull_folders", "store_folders", "pull_items", "store_items",
                             "clear_sync_queue", "update_last_sync"}
       /\ \E fault \in Faults4 : logout("t2", fault)

SpecWipe == InitSession /\ [][NextWipe]_vars

\* ------------------------------------------------------------- the locks
\* The two locks at the grain of their guards: SyncEngine::status, a
\* tokio RwLock taken with read().await and write().await, and
\* Database::conn, a std Mutex taken by every method of the store for the
\* length of the call.  Each caller makes one call; its record says where it
\* is (pc), which guards it holds (held) and which lock it is waiting for
\* (wants).  The rows the calls read and write are left out.
LockTasks == {"t1", "t2", "t3"}

IdleLockTask == [pc |-> "idle", call |-> "none", held |-> {}, wants |-> "none", result |-> "none"]

\* Whether lock can be given to caller t: the mutex to one holder; the write
\* guard when no guard is out; a read guard when no write guard is out and
\* no writer is waiting (the RwLock does not let readers overtake writers).
CanTake(t, lock) ==
    CASE lock = "conn" -> \A u \in LockTasks : "conn" \notin task[u].held
      [] lock = "status.write" ->
            \A u \in LockTasks : task[u].held \cap {"status.read", "status.write"} = {}
      [] lock = "status.read" ->
            \A u \in LockTasks : /\ "status.write" \notin task[u].held
                                 /\ task[u].wants # "status.write"

\* Caller t moves to pc holding held and waiting for wants; a call that has
\* returned leaves nothing behind.
Goto(t, pc, held, wants) ==
    task' = [task EXCEPT ![t] = IF pc = "done"
                                THEN [IdleLockTask EXCEPT !.pc = "done"]
                                ELSE [@ EXCEPT !.pc = pc, !.held = held, !.wants = wants]]

\* A store method that asks for the status write guard inside the call.
store_locks_status(t) ==
    /\ \/ /\ task[t].pc = "idle"
          /\ store_calls < MaxStoreCalls
          /\ store_calls' = store_calls + 1
          /\ task' = [task EXCEPT ![t].pc = "db_call", ![t].call = "store",
                                  ![t].wants = "conn"]
       \/ /\ task[t].pc = "db_call"
          /\ task[t].wants = "conn"
          /\ CanTake(t, "conn")
          /\ Goto(t, "db_call", {"conn"}, "status.write")
          /\ UNCHANGED store_calls
       \/ /\ task[t].pc = "db_call"
          /\ task[t].wants = "status.write"
          /\ CanTake(t, "status.write")
          /\ Goto(t, "db_call", {"conn", "status.write"}, "none")
          /\ UNCHANGED store_calls
       \/ /\ task[t].pc = "db_call"
          /\ "status.write" \in task[t].held
          /\ Goto(t, "done", {}, "none")
          /\ UNCHANGED store_calls
    /\ UNCHANGED <<now, is_locked, dbVars, status, serverVars, cycles, db_result>>

\* db.rs, every method: `let conn = self.conn.lock().unwrap();` as its
\* first statement, the guard dropped when the method returns; no method
\* touches the engine's status.
store_locks(t) ==
    /\ \/ /\ task[t].pc = "idle"
          /\ store_calls < MaxStoreCalls
          /\ store_calls' = store_calls + 1
          /\ task' = [task EXCEPT ![t].pc = "db_call", ![t].call = "store",
                                  ![t].wants = "conn"]
       \/ /\ task[t].pc = "db_call"
          /\ task[t].wants = "conn"
          /\ CanTake(t, "conn")
          /\ Goto(t, "db_call", {"conn"}, "none")
          /\ UNCHANGED store_calls
       \/ /\ task[t].pc = "db_call"
          /\ "conn" \in task[t].held
          /\ Goto(t, "done", {}, "none")
          /\ UNCHANGED store_calls
    /\ UNCHANGED <<now, is_locked, dbVars, status, serverVars, cycles, db_result>>

\* sync.rs get_status: the read guard is taken first and lives to the end of
\* the function; get_pending_sync_items takes and drops the mutex under it.
\* sync() ends in the same function.
get_status_locks(t) ==
    /\ \/ /\ task[t].pc = "idle"
          /\ task' = [task EXCEPT ![t].pc = "status_read", ![t].call = "get_status",
                                  ![t].wants = "status.read"]
       \/ /\ task[t].pc = "status_read"
          /\ CanTake(t, "status.read")
          /\ Goto(t, "get_pending_sync_items", {"status.read"}, "conn")
       \/ /\ task[t].pc = "get_pending_sync_items"
          /\ task[t].wants = "conn"
          /\ CanTake(t, "conn")
          /\ Goto(t, "get_pending_sync_items", {"status.read", "conn"}, "none")
       \/ /\ task[t].pc = "get_pending_sync_items"
          /\ "conn" \in task[t].held
          /\ Goto(t, "status_return", {"status.read"}, "none")
       \/ /\ task[t].pc = "status_return"
          /\ Goto(t, "done", {}, "none")
    /\ UNCHANGED <<now, is_locked, dbVars, status, serverVars, storeHist>>

\* sync.rs check_connectivity: the request is awaited with no guard, then
\* the write guard is taken for the one assignment.
check_connectivity_locks(t) ==
    /\ \/ /\ task[t].pc = "idle"
          /\ task' = [task EXCEPT ![t].pc = "head_send", ![t].call = "check_connectivity"]
          /\ UNCHANGED status
       \/ /\ task[t].pc = "head_send"
          /\ \E answer \in ProbeAnswers :
                task' = [task EXCEPT ![t].pc = "status_write", ![t].wants = "status.write",
                                     ![t].result = IF answer \in {"200", "401"}
                                                   THEN "online" ELSE "offline"]
          /\ UNCHANGED status
       \/ /\ task[t].pc = "status_write"
          /\ task[t].wants = "status.write"
          /\ CanTake(t, "status.write")
          /\ Goto(t, "status_write", {"status.write"}, "none")
          /\ UNCHANGED status
       \/ /\ task[t].pc = "status_write"
          /\ "status.write" \in task[t].held
          /\ status' = ProbeStatus(status, task[t].result = "online")
          /\ Goto(t, "done", {}, "none")
    /\ UNCHANGED <<now, is_locked, dbVars, serverVars, storeHist>>

\* sync.rs sync: the first guarded block (check and set of is_syncing, or
\* the early return), perform_sync with no guard alive, its store calls
\* taking the mutex one at a time and its requests taking nothing, the
\* second guarded block, update_last_sync, and get_status.
sync_locks(t) ==
    /\ \/ /\ task[t].pc = "idle"
          /\ task' = [task EXCEPT ![t].pc = "guard1", ![t].call = "sync",
                                  ![t].wants = "status.write"]
          /\ UNCHANGED <<status, store_calls>>
       \/ /\ task[t].pc \in {"guard1", "guard2"}
          /\ task[t].wants = "status.write"
          /\ CanTake(t, "status.write")
          /\ Goto(t, task[t].pc, {"status.write"}, "none")
          /\ UNCHANGED <<status, store_calls>>
       \/ /\ task[t].pc = "guard1"
          /\ "status.write" \in task[t].held
          /\ IF AlreadySyncing(status)
             THEN Goto(t, "done", {}, "none") /\ UNCHANGED status
             ELSE /\ status' = [status EXCEPT !.is_syncing = TRUE]
                  /\ Goto(t, "perform_sync", {}, "none")
          /\ UNCHANGED store_calls
       \/ /\ task[t].pc = "perform_sync"
          /\ store_calls < MaxStoreCalls
          /\ store_calls' = store_calls + 1
          /\ Goto(t, "sync_db_call", {}, "conn")
          /\ UNCHANGED status
       \/ /\ task[t].pc = "perform_sync"
          /\ \E result \in {"Ok", "Err"} :
                task' = [task EXCEPT ![t].pc = "guard2", ![t].wants = "status.write",
                                     ![t].result = result]
          /\ UNCHANGED <<status, store_calls>>
       \/ /\ task[t].pc \in {"sync_db_call", "update_last_sync"}
          /\ task[t].wants = "conn"
          /\ CanTake(t, "conn")
          /\ Goto(t, task[t].pc, {"conn"}, "none")
          /\ UNCHANGED <<status, store_calls>>
       \/ /\ task[t].pc = "sync_db_call"
          /\ "conn" \in task[t].held
          /\ Goto(t, "perform_sync", {}, "none")
          /\ UNCHANGED <<status, store_calls>>
       \/ /\ task[t].pc = "guard2"
          /\ "status.write" \in task[t].held
          /\ status' = StatusAfter(status, task[t].result = "Ok", now)
          /\ IF task[t].result = "Ok"
             THEN Goto(t, "update_last_sync", {}, "conn")
             ELSE Goto(t, "done", {}, "none")
          /\ UNCHANGED store_calls
       \/ /\ task[t].pc = "update_last_sync"
          /\ "conn" \in task[t].held
          /\ \/ Goto(t, "status_read", {}, "status.read")
             \/ Goto(t, "done", {}, "none")
          /\ UNCHANGED <<status, store_calls>>
    /\ UNCHANGED <<now, is_locked, dbVars, serverVars, cycles, db_result>>

\* A logged-in, unlocked application with nothing in progress.
InitLocks ==
    /\ now = 0
    /\ vault_items = EmptyTable
    /\ folders = EmptyTable
    /\ sync_queue = EmptyTable
    /\ sqlite_sequence = 0
    /\ user_session = Put(EmptyTable, 1, UserSession(UserId, "tok0", SkewWindow, NULL))
    /\ status = InitStatus
    /\ task = [t \in LockTasks |-> IdleLockTask]
    /\ server_items = EmptyTable
    /\ server_folders = EmptyTable
    /\ cycles = 0
    /\ store_calls = 0
    /\ db_result = "none"
    /\ is_locked = FALSE

\* Any step of caller t inside the one call it makes.
LockStep(t) ==
    \/ get_status_locks(t)
    \/ check_connectivity_locks(t)
    \/ sync_locks(t)
    \/ store_locks(t)

NextLocks == \E t \in LockTasks : LockStep(t)

\* Every caller that can take a step eventually takes one: requests are
\* answered and a guard that can be given is given.
SpecLocks == InitLocks /\ [][NextLocks]_vars /\ \A t \in LockTasks : WF_vars(LockStep(t))

\* ------------------------------------------------------------------ claims
\* The callers whose cycle is in flight: between the check-and-set of
\* is_syncing and the status block that clears it.
InFlight == {t \in Tasks : task[t].pc \in CyclePcs}

\* A step in which caller t enters sync().
Invokes(t) == task[t].pc = "idle" /\ task'[t].pc /= "idle"

\* C1: single-flight.  A call of sync() made while is_syncing is true returns
\* at once with Ok and a status whose is_syncing is true, having read no
\* session, listed no pending entry, and changed neither the store, the
\* backend nor the engine status; and at no time are two cycles in flight.
C1_SingleFlight ==
    /\ [](Cardinality(InFlight) <= 1)
    /\ [][\A t \in Tasks :
            (Invokes(t) /\ status.is_syncing) =>
                /\ task'[t].pc = "done"
                /\ task'[t].ret = "Ok"
                /\ task'[t].ret_status.is_syncing
                /\ task'[t].session = {}
                /\ task'[t].pending = <<>>
                /\ UNCHANGED <<dbVars, serverVars, status>>]_vars

\* C1 witness: a call has returned the in-flight status while the other
\* caller's cycle is issuing a push request.
C1_Witness ==
    \E t, u \in Tasks :
        /\ t /= u
        /\ task[t].pc = "done" /\ task[t].ret = "Ok"
        /\ task[t].ret_status.is_syncing
        /\ task[t].session = {}
        /\ task[u].pc = "push_send"

\* A step that is one call of a Local Store mutator.
StoreCall == store_calls' = store_calls + 1

Removed == (DOMAIN sync_queue) \ (DOMAIN sync_queue')

\* The caller of the cycle that is taking entry k out of the outbox.
Remover(t, k) == task[t].pc = "push_remove" /\ Entry(t).id = k

\* The cycle of caller t has ended: perform_sync has returned.
CycleEnded(t) == task[t].pc \in {"finish", "update_last_sync", "get_status"}

\* The entries of the pending list the cycle of caller t has not reached.
NotReached(t) ==
    {task[t].pending[j].id : j \in {i \in 1..Len(task[t].pending) : i > task[t].idx}}

\* C3 as stated: an entry leaves the outbox only after its remote call was
\* issued and returned success, and an entry whose call was not made or
\* failed is still queued when the cycle ends.
C3_Original ==
    /\ [][\A k \in Removed : \E t \in Tasks : Remover(t, k) /\ task[t].how = "acked"]_vars
    /\ [](\A t \in Tasks : CycleEnded(t) =>
                (task[t].failed \cup NotReached(t)) \subseteq DOMAIN sync_queue)

\* C3 amended: an entry leaves the outbox only after its remote call returned
\* success or, for a create/update entry whose record was no longer in the
\* local table when the push looked it up, without any request; an entry
\* whose push failed, or that the cycle did not reach, is still queued when
\* the cycle ends.
C3_AckedOrRecordGone ==
    /\ [][\A k \in Removed : \E t \in Tasks :
            /\ Remover(t, k)
            /\ \/ task[t].how = "acked"
               \/ task[t].how = "skipped" /\ Entry(t).operation /= "delete"]_vars
    /\ [](\A t \in Tasks : CycleEnded(t) =>
                (task[t].failed \cup NotReached(t)) \subseteq DOMAIN sync_queue)

\* C3 witness: the create entry of a purged item has left the outbox with no
\* request made, and the cycle is about to mark the record synced.
C3_Witness ==
    /\ task["t1"].pc = "push_mark"
    /\ task["t1"].how = "skipped"
    /\ Entry("t1").operation = "create"
    /\ Entry("t1").id \notin DOMAIN sync_queue
    /\ server_items = EmptyTable

\* Positions inside push_changes.
PushPcs == {"push_list", "push_item", "push_send", "push_remove", "push_mark"}

\* Positions of the pull phase and after.
AfterPushPcs == {"pull_folders", "store_folders", "pull_items", "store_items"}

\* A step in which the request caller t sent for its current entry fails.
RemoteFailure(t) ==
    task[t].pc = "push_send" /\ task'[t] /= task[t] /\ task'[t].how = "failed"

\* C4: when the remote call for an entry fails the outbox is left as it is
\* and the loop moves to the next entry of the pending list (or, after the
\* last one, to the pull phase); push_changes returns an error only for a
\* storage fault, so a cycle reaches the pull phase only after every entry
\* was attempted, and the entries that failed are still queued then and
\* when sync() returns.
C4_FailedPushContinues ==
    /\ [][\A t \in Tasks : RemoteFailure(t) =>
            /\ UNCHANGED sync_queue
            /\ Entry(t).id \in DOMAIN sync_queue
            /\ task'[t].err = "none"
            /\ task'[t].idx = task[t].idx + 1
            /\ task'[t].pc = LoopPc(task[t].pending, task[t].idx + 1)
            /\ task'[t].pc \in {"push_item", "push_send", "pull_folders"}]_vars
    /\ [][\A t \in Tasks : (task[t].pc \in PushPcs /\ task'[t].pc = "finish") =>
            task'[t].err = "Database"]_vars
    /\ [](\A t \in Tasks :
            /\ task[t].pc \in AfterPushPcs => task[t].idx = Len(task[t].pending) + 1
            /\ task[t].pc \in AfterPushPcs \cup {"finish", "update_last_sync", "get_status", "done"}
                  => task[t].failed \subseteq DOMAIN sync_queue)

\* C4 witness: the request for the first entry failed, the entry is still
\* queued, and the cycle is sending the request for the second entry.
C4_Witness ==
    /\ task["t1"].pc = "push_send"
    /\ task["t1"].idx = 2
    /\ task["t1"].how = "failed"
    /\ task["t1"].pending[1].id \in task["t1"].failed
    /\ task["t1"].pending[1].id \in DOMAIN sync_queue

\* C5: with a session present, sync() called again and again, a working
\* store and requests that eventually succeed, every entry a local mutation
\* put in the outbox is eventually taken out of it.
C5_EventuallyPushed ==
    \A k \in 1..MaxStoreCalls : (k \in DOMAIN sync_queue) ~> (k \notin DOMAIN sync_queue)

\* C5 witness: the first entry was pushed and left the outbox in a cycle that
\* started after a second entry was queued behind it.
C5_Witness ==
    /\ task["t1"].pc = "push_mark"
    /\ task["t1"].how = "acked"
    /\ Len(task["t1"].pending) = 2
    /\ Entry("t1").id = 1
    /\ DOMAIN sync_queue = {2}

\* sync() has returned to caller t, and no other cycle began meanwhile.
Returned(t, r) == task[t].pc = "done" /\ task[t].ret = r /\ ~task[t].overlapped

\* The entries the cycle of caller t took out of the outbox.
Dequeued(t) ==
    {task[t].pending[j].id :
        j \in {i \in 1..Len(task[t].pending) :
                 i < task[t].idx /\ task[t].pending[i].id \notin task[t].failed}}

\* C6 as stated: when sync() returns an error, is_syncing is false,
\* last_sync_at is what it was before the call, in the engine status and in
\* the persisted session, and the entries dequeued by the cycle are still
\* out of the outbox.
C6_Original ==
    \A t \in Tasks : Returned(t, "Err") =>
        /\ ~status.is_syncing
        /\ status.last_sync_at = task[t].pre_status_sync
        /\ SessionLastSync = task[t].pre_session_sync
        /\ Dequeued(t) \cap DOMAIN sync_queue = {}

\* The call of caller t found a single pending entry, the create of the one
\* record made so far, and the request pushing it failed.
OneCreateFailed(t) ==
    /\ store_calls = 1
    /\ Len(task[t].pending) = 1
    /\ task[t].pending[1].operation = "create"
    /\ task[t].how = "failed"
    /\ task[t].failed = {task[t].pending[1].id}

\* C7 as stated: after a sync whose push of the one offline record failed,
\* the outbox still holds one entry and last_sync_at is unchanged.
C7_Original ==
    \A t \in Tasks : (task[t].pc = "done" /\ OneCreateFailed(t)) =>
        /\ Cardinality(DOMAIN sync_queue) = 1
        /\ status.last_sync_at = task[t].pre_status_sync
        /\ SessionLastSync = task[t].pre_session_sync

\* C7 amended: after such a sync the outbox still holds that one entry;
\* last_sync_at is unchanged when the rest of the cycle failed, and when the
\* rest of the cycle succeeded the engine status carries the time the cycle
\* completed, as does the session once update_last_sync has written it.
C7_FailedPushKeepsEntry ==
    \A t \in Tasks : (task[t].pc = "done" /\ OneCreateFailed(t) /\ ~task[t].overlapped) =>
        /\ DOMAIN sync_queue = {task[t].pending[1].id}
        /\ IF task[t].err /= "none"
           THEN /\ task[t].ret = "Err"
                /\ status.last_sync_at = task[t].pre_status_sync
                /\ SessionLastSync = task[t].pre_session_sync
           ELSE /\ status.last_sync_at \in 0..now
                /\ status.last_sync_at >= task[t].pre_status_sync
                /\ IF task[t].ret = "Ok"
                   THEN SessionLastSync \in status.last_sync_at..now
                   ELSE SessionLastSync = task[t].pre_session_sync

\* C7 witness: the push failed, sync() returned Ok and last_sync_at moved.
C7_Witness ==
    /\ Returned("t1", "Ok")
    /\ OneCreateFailed("t1")
    /\ status.last_sync_at /= task["t1"].pre_status_sync
    /\ SessionLastSync /= task["t1"].pre_session_sync

\* The call of caller t found exactly the create entries of two items, the
\* only two records made so far, and no mutator was called since.
TwoCreatesOffline(t) ==
    /\ store_calls = 2
    /\ sqlite_sequence = 2
    /\ Len(task[t].pending) = 2
    /\ \A j \in 1..2 : /\ task[t].pending[j].operation = "create"
                       /\ task[t].pending[j].table_name = "vault_items"

\* Outbox empty, both records marked synced, and last_sync_at, in the status
\* and in the session, read from the clock as the call completed: not before
\* the records were marked and not after now.
AllSynced(t) ==
    /\ DOMAIN sync_queue = {}
    /\ \A j \in 1..2 :
          /\ task[t].pending[j].record_id \in DOMAIN vault_items
          /\ vault_items[task[t].pending[j].record_id].synced_at \in 0..status.last_sync_at
    /\ status.last_sync_at \in 0..now
    /\ task[t].ret_status.last_sync_at = status.last_sync_at
    /\ SessionLastSync \in status.last_sync_at..now

\* C8 as stated: two records created offline, sync() returns Ok, and then
\* the outbox is empty, both records have synced_at, and last_sync_at is the
\* completion time.
C8_Original ==
    \A t \in Tasks : (Returned(t, "Ok") /\ TwoCreatesOffline(t)) => AllSynced(t)

\* C8 amended: the same, provided no push of the cycle failed; sync() also
\* returns Ok when one did, and the entry then stays queued.
C8_SyncedWhenPushesSucceed ==
    \A t \in Tasks :
        (Returned(t, "Ok") /\ TwoCreatesOffline(t) /\ task[t].failed = {}) => AllSynced(t)

\* C8 witness: both creates were pushed and sync() returned Ok, the clock
\* having moved during the call.
C8_Witness ==
    /\ Returned("t1", "Ok")
    /\ TwoCreatesOffline("t1")
    /\ task["t1"].failed = {}
    /\ \E id \in DOMAIN vault_items : vault_items[id].synced_at < status.last_sync_at

\* C9 as stated: a mutator that returns an error has changed neither the
\* records nor the outbox, and (before any sync) every item and folder in
\* the store has its create entry in the outbox.
C9_Original ==
    /\ [][(StoreCall /\ db_result' = "Err") =>
            UNCHANGED <<vault_items, folders, sync_queue>>]_vars
    /\ [](\A id \in DOMAIN vault_items : \E k \in DOMAIN sync_queue :
            /\ sync_queue[k].operation = "create"
            /\ sync_queue[k].table_name = "vault_items"
            /\ sync_queue[k].record_id = id)
    /\ [](\A id \in DOMAIN folders : \E k \in DOMAIN sync_queue :
            /\ sync_queue[k].operation = "create"
            /\ sync_queue[k].table_name = "folders"
            /\ sync_queue[k].record_id = id)

\* The ids of a pending list grow along the list.
Increasing(pending) ==
    \A i, j \in 1..Len(pending) : i < j => pending[i].id < pending[j].id

C11_Original ==
    [][\A t \in Tasks :
          (/\ task[t].call = "login"
           /\ task[t].pc = "update_last_sync"
           /\ task'[t].pc = "done"
           /\ task'[t].ret = "Ok")
          => LET remote_f == RemoteList(server_folders', UserId, NULL)
                 remote_i == RemoteList(server_items', UserId, NULL)
             IN  /\ DOMAIN folders' = {r.id : r \in remote_f}
                 /\ \A r \in remote_f : folders'[r.id].name = r.name
                 /\ DOMAIN vault_items' = {r.id : r \in remote_i}
                 /\ \A r \in remote_i :
                        /\ vault_items'[r.id].encrypted_data = r.encrypted_data
                        /\ vault_items'[r.id].item_type = r.item_type
                        /\ vault_items'[r.id].folder_id = r.folder_id
                        /\ vault_items'[r.id].deleted_at = r.deleted_at
                 /\ sync_queue' = EmptyTable
                 /\ 1 \in DOMAIN user_session'
                 /\ user_session'[1].last_sync_at /= NULL]_vars

\* C12: a logout that returns Ok leaves no item, no folder, no outbox entry
\* and no session row in the store.
C12_LogoutWipes ==
    [][\A t \in Tasks :
          (/\ task[t].pc = "idle"
           /\ task'[t].pc = "done"
           /\ task'[t].call = "logout"
           /\ task'[t].ret = "Ok")
          => /\ vault_items' = EmptyTable
             /\ folders' = EmptyTable
             /\ sync_queue' = EmptyTable
             /\ user_session' = EmptyTable]_vars

\* A logout has returned Ok on a device where an item had been created and
\* queued.
C12_Witness ==
    /\ task["t1"].call = "logout"
    /\ task["t1"].pc = "done"
    /\ task["t1"].ret = "Ok"
    /\ store_calls > 0
    /\ sqlite_sequence > 0
    /\ vault_items = EmptyTable
    /\ user_session = EmptyTable

\* C13: sync() that finds no persisted session (the store read returning
\* Ok(None)) leaves perform_sync at once with an Auth error, having issued no
\* request, and returns Err; neither step changes a store table, the
\* backend, or status.last_sync_at, and is_syncing is false at the return.
C13_NoSessionIsAuthError ==
    [][\A t \in Tasks :
          /\ (/\ task[t].pc = "get_session"
              /\ 1 \notin DOMAIN user_session
              /\ task'[t] /= task[t]
              /\ task'[t].err /= "Database")
             => /\ task'[t].pc = "finish"
                /\ task'[t].err = "Auth"
                /\ task'[t].session = {}
                /\ UNCHANGED <<dbVars, serverVars, status>>
          /\ (/\ task[t].pc = "finish"
              /\ task[t].session = {}
              /\ task[t].err = "Auth"
              /\ task'[t] /= task[t])
             => /\ task'[t].pc = "done"
                /\ task'[t].ret = "Err"
                /\ ~status'.is_syncing
                /\ status'.last_sync_at = status.last_sync_at
                /\ task'[t].ret_status.last_sync_at = task[t].pre_status_sync
                /\ SessionLastSync' = task[t].pre_session_sync
                /\ UNCHANGED <<dbVars, serverVars>>]_vars

\* sync() has returned the Auth error of a missing session.
C13_Witness ==
    /\ task["t1"].call = "sync"
    /\ task["t1"].pc = "done"
    /\ task["t1"].ret = "Err"
    /\ task["t1"].err = "Auth"
    /\ task["t1"].session = {}
    /\ user_session = EmptyTable
    /\ ~status.is_syncing

\* C14 as stated: ensure_valid_token refreshes exactly when
\* expires_at <= now + 300, the boundary included, and returns the session
\* unchanged, with no request and no store write, exactly when
\* expires_at > now + 300.
C14_Original ==
    [][\A t \in Tasks :
          (task[t].pc = "ensure_valid_token" /\ task'[t] /= task[t])
          => IF Sess(t).expires_at <= now + SkewWindow
             THEN \/ task'[t].pc = "save_session" /\ task'[t].session /= task[t].session
                  \/ task'[t].err \in {"Auth", "Http"}
             ELSE /\ task'[t].pc = "push_list"
                  /\ task'[t].session = task[t].session
                  /\ UNCHANGED <<dbVars, serverVars>>]_vars

\* C14: ensure_valid_token refreshes (remote refresh call, then the persist
\* of the session the call returned) exactly when expires_at < now + 300;
\* when expires_at >= now + 300, the boundary included, it returns the
\* session unchanged with no request and no store write.
C14_RefreshBelowWindow ==
    [][\A t \in Tasks :
          /\ (task[t].pc = "ensure_valid_token" /\ task'[t] /= task[t])
             => IF Sess(t).expires_at < now + SkewWindow
                THEN \/ /\ task'[t].pc = "save_session"
                        /\ task'[t].session /= task[t].session
                        /\ UNCHANGED <<dbVars, serverVars>>
                     \/ /\ task'[t].err \in {"Auth", "Http"}
                        /\ task'[t].pc = "finish"
                        /\ UNCHANGED <<dbVars, serverVars>>
                ELSE /\ task'[t].pc = "push_list"
                     /\ task'[t].err = "none"
                     /\ task'[t].session = task[t].session
                     /\ UNCHANGED <<dbVars, serverVars>>
          /\ (/\ task[t].pc = "save_session"
              /\ task[t].call = "sync"
              /\ task'[t] /= task[t]
              /\ task'[t].err = "none")
             => /\ user_session' = Put(user_session, 1, Sess(t))
                /\ task'[t].pc = "push_list"
                /\ task'[t].session = task[t].session]_vars

\* A token with exactly the window left went through ensure_valid_token
\* without a refresh.
C14_Witness ==
    /\ now = 0
    /\ task["t1"].pc = "push_list"
    /\ Sess("t1").expires_at = now + SkewWindow
    /\ Sess("t1").access_token = "tok0"
    /\ user_session[1].access_token = "tok0"

\* C15 as stated: a failed token refresh aborts the cycle with an
\* authentication error, the store and the backend untouched.
C15_Original ==
    [][\A t \in Tasks :
          (/\ task[t].pc = "ensure_valid_token"
           /\ task'[t] /= task[t]
           /\ task'[t].err /= "none")
          => /\ task'[t].err = "Auth"
             /\ UNCHANGED <<dbVars, serverVars>>]_vars

\* C15: a failed token refresh aborts the cycle before any push or pull,
\* with the Auth error when the backend rejects the refresh and the Http
\* error when the request gets no usable response; sync() returns that
\* error, and no outbox entry, record, session field or backend row has
\* changed.
C15_RefreshFailureAborts ==
    [][\A t \in Tasks :
          /\ (/\ task[t].pc = "ensure_valid_token"
              /\ task'[t] /= task[t]
              /\ task'[t].pc /= "save_session")
             => /\ NeedsRefresh(Sess(t).expires_at, now)
                   => /\ task'[t].err \in {"Auth", "Http"}
                      /\ task'[t].pc = "finish"
                /\ task'[t].pending = <<>>
                /\ task'[t].applied = {}
                /\ UNCHANGED <<dbVars, serverVars>>
          /\ (/\ task[t].pc = "finish"
              /\ task[t].err \in {"Auth", "Http"}
              /\ task[t].session /= {}
              /\ task[t].pending = <<>>
              /\ task'[t] /= task[t])
             => /\ task'[t].pc = "done"
                /\ task'[t].ret = "Err"
                /\ user_session[1] = Sess(t)
                /\ UNCHANGED <<dbVars, serverVars>>]_vars

\* sync() has returned the error of a refresh request that got no response,
\* with an entry waiting in the outbox.
C15_Witness ==
    /\ task["t1"].pc = "done"
    /\ task["t1"].ret = "Err"
    /\ task["t1"].err = "Http"
    /\ task["t1"].session /= {}
    /\ task["t1"].pending = <<>>
    /\ sync_queue /= EmptyTable
    /\ user_session[1] = Sess("t1")

\* C16: in every state an item whose deleted_at is set is absent from
\* get_all_vault_items and present in get_trashed_items; restore_vault_item
\* of a trashed item clears its deleted_at and puts it back in the active
\* listing (and out of the trash).
C16_TrashedHidden ==
    [][/\ \A id \in DOMAIN vault_items :
             vault_items[id].deleted_at /= NULL
             => /\ vault_items[id] \notin get_all_vault_items(vault_items)
                /\ vault_items[id] \in get_trashed_items(vault_items)
       /\ \A id \in DOMAIN vault_items' :
             vault_items'[id].deleted_at /= NULL
             => /\ vault_items'[id] \notin get_all_vault_items(vault_items')
                /\ vault_items'[id] \in get_trashed_items(vault_items')
       /\ \A id \in ItemIds :
             (/\ id \in DOMAIN vault_items
              /\ vault_items[id].deleted_at /= NULL
              /\ restore_vault_item(id, "none"))
             => /\ db_result' = "Ok"
                /\ vault_items'[id].deleted_at = NULL
                /\ vault_items'[id] \in get_all_vault_items(vault_items')
                /\ vault_items'[id] \notin get_trashed_items(vault_items')]_vars

\* The trashed item has been restored: the latest entry is the payload-less
\* update of the row, which is active again, and the trash is empty.
C16_Witness ==
    /\ store_calls > 0
    /\ db_result = "Ok"
    /\ "a" \in DOMAIN vault_items
    /\ vault_items["a"].deleted_at = NULL
    /\ vault_items["a"] \in get_all_vault_items(vault_items)
    /\ sync_queue[sqlite_sequence].operation = "update"
    /\ sync_queue[sqlite_sequence].record_id = "a"
    /\ sync_queue[sqlite_sequence].payload = {}
    /\ get_trashed_items(vault_items) = {}

\* C17: a purged item stays out of every listing until a local create call
\* brings its id back.  The backend here holds only rows this device pushed,
\* so an id that is in no listing has never been created or has been purged:
\* the only step that puts it in a listing is insert_vault_item.
C17_Original ==
    [][\A id \in ItemIds :
          LET listed(items) == {r.id : r \in get_all_vault_items(items)
                                            \cup get_trashed_items(items)}
          IN  (id \notin listed(vault_items) /\ id \in listed(vault_items'))
              => \E in \in ItemInputs, fault \in Faults2 :
                     insert_vault_item(id, in[1], in[2], in[3], fault)]_vars

\* C18: a create or update call that meets no storage fault returns Ok
\* whether or not a row with the record's id exists; afterwards the row
\* with that id holds the record's fields, and exactly one outbox entry,
\* carrying the record, was appended.
C18_Original ==
    [][/\ \A id \in ItemIds, in \in ItemInputs :
             (\/ insert_vault_item(id, in[1], in[2], in[3], "none")
              \/ update_vault_item(id, in[1], in[2], in[3], "none"))
             => /\ db_result' = "Ok"
                /\ id \in DOMAIN vault_items'
                /\ vault_items'[id].encrypted_data = in[1]
                /\ vault_items'[id].folder_id = in[2]
                /\ vault_items'[id].is_favorite = in[3]
                /\ vault_items'[id].deleted_at = NULL
                /\ DOMAIN sync_queue' = DOMAIN sync_queue \cup {sqlite_sequence'}
                /\ sqlite_sequence' \notin DOMAIN sync_queue
                /\ sync_queue'[sqlite_sequence'].record_id = id
                /\ sync_queue'[sqlite_sequence'].payload =
                       {VaultItem(id, in[1], in[2], in[3], NULL, NULL, now, NULL)}
       /\ \A id \in FolderIds, n \in FolderNames :
             (insert_folder(id, n, "none") \/ update_folder(id, n, "none"))
             => /\ db_result' = "Ok"
                /\ id \in DOMAIN folders'
                /\ folders'[id].name = n
                /\ DOMAIN sync_queue' = DOMAIN sync_queue \cup {sqlite_sequence'}
                /\ sqlite_sequence' \notin DOMAIN sync_queue
                /\ sync_queue'[sqlite_sequence'].record_id = id
                /\ sync_queue'[sqlite_sequence'].payload = {Folder(id, n, NULL, now)}]_vars

\* C19: bulk_upsert_folders and bulk_upsert_vault_items are atomic per
\* batch: a call that a storage fault makes fail leaves its table as it was
\* before the call, a call that returns Ok leaves every row of the batch in
\* the table.
C19_BulkUpsertAtomic ==
    [][\A t \in Tasks :
          /\ (task[t].pc = "store_folders" /\ task'[t] /= task[t])
             => IF task'[t].err /= "none"
                THEN folders' = folders
                ELSE \A f \in task[t].fetched :
                        /\ f.id \in DOMAIN folders'
                        /\ folders'[f.id] = Folder(f.id, f.name, now, f.updated_at)
          /\ (task[t].pc = "store_items" /\ task'[t] /= task[t])
             => IF task'[t].err /= "none"
                THEN vault_items' = vault_items
                ELSE \A i \in task[t].fetched :
                        /\ i.id \in DOMAIN vault_items'
                        /\ vault_items'[i.id].encrypted_data = i.encrypted_data
                        /\ vault_items'[i.id].folder_id = i.folder_id
                        /\ vault_items'[i.id].synced_at = now]_vars

\* bulk_upsert_vault_items has failed on a batch of two fetched items, and
\* neither is in the store.
C19_Witness ==
    /\ task["t1"].err = "Database"
    /\ Cardinality(task["t1"].fetched) = 2
    /\ \A i \in task["t1"].fetched :
           /\ "encrypted_data" \in DOMAIN i
           /\ i.id \notin DOMAIN vault_items

\* C20: when the pull of a sync cycle or of initial sync fails, at whatever
\* point, no row this pull fetched is in the local store: nothing the call
\* has applied so far is still there.
C20_Original ==
    [][\A t \in Tasks :
          (/\ task[t].pc \in {"pull_folders", "store_folders", "pull_items", "store_items"}
           /\ task[t].err = "none"
           /\ task'[t].err /= "none")
          => \A r \in task[t].applied :
                 ~(r.id \in DOMAIN folders' /\ folders'[r.id] = r)]_vars

\* C21: bulk_upsert is idempotent: once a batch has been applied to the
\* store (folders or items, whatever the store held before), applying the
\* same batch again leaves the table exactly as the first application left
\* it.
C21_BulkUpsertIdempotent ==
    [][\A t \in Tasks :
          LET batch == task'[t].applied \ task[t].applied IN
          /\ (task[t].pc = "store_folders" /\ task'[t].pc = "pull_items")
                 => bulk_upsert_folders(folders', batch) = folders'
          /\ (task[t].pc = "store_items" /\ task'[t].pc = "finish"
                 /\ task'[t].err = "none")
                 => bulk_upsert_vault_items(vault_items', batch) = vault_items']_vars

\* C21 witness: a batch of two items was applied over a store that already
\* held both ids, and the rows are now the batch's.
C21_Witness ==
    /\ task["t1"].pc = "finish"
    /\ task["t1"].err = "none"
    /\ DOMAIN vault_items = ItemIds
    /\ \A id \in ItemIds : vault_items[id] \in task["t1"].applied
    /\ \E id \in ItemIds : vault_items[id].deleted_at # NULL

\* C22: the logout wipe is atomic: when clear_all_data fails with a storage
\* fault, the four tables (items, folders, outbox, session) are all as they
\* were or all empty; never only some of them cleared.
C22_Original ==
    [][\A t \in Tasks :
          (task'[t] # task[t] /\ task'[t].call = "logout" /\ task'[t].ret = "Err")
              => \/ UNCHANGED <<vault_items, folders, sync_queue, user_session>>
                 \/ /\ vault_items' = EmptyTable
                    /\ folders' = EmptyTable
                    /\ sync_queue' = EmptyTable
                    /\ user_session' = EmptyTable]_vars

\* C23: storage faults are never silently swallowed: a sync() call in which
\* the store read of the record to push failed (push_upsert's
\* get_vault_item / get_all_folders) does not return Ok.
C23_Original ==
    \A t \in Tasks :
        (task[t].pc = "done" /\ task[t].call = "sync" /\ task[t].how = "fault")
            => task[t].ret = "Err"

\* C24 as stated: while the vault is locked, every command that mutates or
\* returns data held in the Local Store returns "Vault is locked" and leaves
\* the store as it is; get_session is such a command.
C24_Original ==
    [][(is_locked /\ (StoreCommand \/ ReadCommand \/ sync_vault("t1") \/ SessionCommand))
          => (db_result' = "VaultLocked" /\ UNCHANGED dbVars)]_vars

\* C24 amended: while the vault is locked, every command on items and
\* folders (create, update, trash, restore, purge, the listings) and
\* sync_vault returns "Vault is locked", and the store, the engine and the
\* backend are unchanged by it.
C24_GatedCommandsLocked ==
    [][(is_locked /\ (StoreCommand \/ ReadCommand \/ sync_vault("t1")))
          => /\ db_result' = "VaultLocked"
             /\ UNCHANGED <<dbVars, serverVars, status, task, cycles, store_calls>>]_vars

\* C24 witness: the vault was unlocked, the store changed, the vault was
\* locked again and a gated command has been turned away.
C24_Witness ==
    /\ is_locked
    /\ db_result = "VaultLocked"
    /\ store_calls > 0
    /\ 1 \in DOMAIN user_session

\* C25: every sync cycle returns the engine to Idle: whenever is_syncing is
\* true it is false again later, whether the cycle succeeds or fails at the
\* session lookup, the refresh, the push or the pull, given that every
\* network and storage call returns.
C25_CycleReturnsToIdle == status.is_syncing ~> ~status.is_syncing

\* C25 witness: a cycle whose refresh, pull or store call failed has
\* returned its error and the engine is idle.
C25_Witness ==
    /\ task["t1"].pc = "done"
    /\ task["t1"].call = "sync"
    /\ task["t1"].ret = "Err"
    /\ task["t1"].err \in {"Auth", "Http", "Sync", "Database"}
    /\ ~status.is_syncing

\* C26: a status read never waits for a sync cycle in progress: at every
\* position of a running cycle get_status can take the status lock and
\* complete, and the status it returns has is_syncing = true.
C26_StatusReadDuringCycle ==
    /\ [](\A t \in Tasks :
             (task[t].pc \in CyclePcs /\ task["t2"].pc = "idle")
                 => ENABLED get_sync_status("t2", FALSE))
    /\ [][(task["t2"].pc = "idle" /\ task'["t2"].call = "status"
              /\ \E t \in Tasks : task[t].pc \in CyclePcs)
             => (task'["t2"].pc = "done" /\ task'["t2"].ret_status.is_syncing)]_vars

\* C26 witness: a status read returned is_syncing = true while the cycle's
\* request for an entry was in flight.
C26_Witness ==
    /\ task["t1"].pc = "push_send"
    /\ task["t2"].pc = "done"
    /\ task["t2"].call = "status"
    /\ task["t2"].ret_status.is_syncing

\* C28 as stated: check_connectivity changes no Local Store state and no
\* field of the sync status, whatever the backend answers.
C28_Original ==
    [][\A answer \in ProbeAnswers :
          check_connectivity(answer) => UNCHANGED <<dbVars, status>>]_vars

\* C28 amended: check_connectivity changes no Local Store state and no
\* field of the sync status other than is_online, which it sets to the
\* probe's result (true for a success status and for 401, false otherwise),
\* whatever the backend answers and whether or not a cycle is running.
C28_ProbeWritesOnlyIsOnline ==
    [][\A answer \in ProbeAnswers :
          check_connectivity(answer) =>
              /\ UNCHANGED <<dbVars, serverVars, task>>
              /\ status'.is_syncing = status.is_syncing
              /\ status'.last_sync_at = status.last_sync_at
              /\ status'.pending_changes = status.pending_changes
              /\ status'.is_online = (answer \in {"200", "401"})]_vars

\* C28 witness: a probe that got no usable answer has set is_online to
\* false while a cycle was waiting for the answer to its push request.
C28_Witness ==
    /\ task["t1"].pc = "push_send"
    /\ status.is_syncing
    /\ ~status.is_online

\* C27: every SyncStatus that sync() hands to a caller, the one for a caller
\* that found a cycle in progress included, has pending_changes equal to
\* the number of outbox entries at the time it is produced.
C27_Original ==
    [][\A t \in Tasks :
          (task'[t] # task[t] /\ task'[t].pc = "done" /\ task'[t].call = "sync"
              /\ task'[t].ret = "Ok")
              => task'[t].ret_status.pending_changes = Len(get_pending_sync_items(sync_queue))]_vars

\* C29: the pull is last-writer-wins with the server as writer: when the
\* item batch is stored, every fetched record replaces the local row of the
\* same id with the server's content and tombstone state, whatever the local
\* row's local_updated_at and whether or not outbox entries for the id are
\* pending; the outbox itself is left as it is.
C29_PullOverwritesLocal ==
    [][\A t \in Tasks :
          (task[t].pc = "store_items" /\ task'[t].pc = "finish" /\ task'[t].err = "none")
              => /\ \A i \in task[t].fetched :
                        /\ i.id \in DOMAIN vault_items'
                        /\ vault_items'[i.id].encrypted_data = i.encrypted_data
                        /\ vault_items'[i.id].folder_id = i.folder_id
                        /\ vault_items'[i.id].deleted_at = i.deleted_at
                        /\ vault_items'[i.id].server_updated_at = i.updated_at
                        /\ vault_items'[i.id].local_updated_at = i.updated_at
                        /\ vault_items'[i.id].synced_at = now
                 /\ \A id \in DOMAIN vault_items' \ {i.id : i \in task[t].fetched} :
                        id \in DOMAIN vault_items /\ vault_items'[id] = vault_items[id]
                 /\ UNCHANGED sync_queue]_vars

\* C29 witness: item a was edited locally after the backend's version was
\* written and its update entry is still queued; the pull has replaced the
\* row by the backend's version.
C29_Witness ==
    /\ task["t1"].pc = "finish"
    /\ task["t1"].err = "none"
    /\ \E k \in DOMAIN sync_queue :
           /\ sync_queue[k].record_id = "a"
           /\ sync_queue[k].created_at = 1
           /\ sync_queue[k].payload # {}
    /\ "a" \in DOMAIN vault_items
    /\ vault_items["a"].encrypted_data = "d2"
    /\ vault_items["a"].server_updated_at = 0

\* C30: quiescent convergence: once the local mutations have stopped, with
\* no other client and with sync cycles that keep running and remote calls
\* that eventually succeed, from some time on the outbox is empty and the
\* local store and the backend hold the same item ids with the same content
\* and the same deleted_at.
C30_Original ==
    <>[](/\ sync_queue = EmptyTable
         /\ DOMAIN vault_items = DOMAIN server_items
         /\ \A id \in DOMAIN vault_items :
                /\ vault_items[id].encrypted_data = server_items[id].encrypted_data
                /\ vault_items[id].folder_id = server_items[id].folder_id
                /\ vault_items[id].deleted_at = server_items[id].deleted_at)

\* C31: logout is final under concurrency: when logout ran while an initial
\* sync was in flight and both have finished, the store holds no item, no
\* folder, no outbox entry and no session row.
C31_Original ==
    (/\ task["t1"].pc = "done" /\ task["t1"].call = "login"
     /\ task["t2"].pc = "done" /\ task["t2"].call = "logout" /\ task["t2"].ret = "Ok")
        => /\ vault_items = EmptyTable
           /\ folders = EmptyTable
           /\ sync_queue = EmptyTable
           /\ user_session = EmptyTable

\* C32: no server-side change is missed by delta pulls: once a cycle has
\* stamped last_sync_at and the engine is idle, every backend row written
\* before that stamp (which no later delta pull, filtering on
\* updated_at > last_sync_at, will fetch) is in the local store with the
\* backend's content.
C32_Original ==
    (task["t1"].pc \in {"idle", "done"} /\ SessionLastSync # NULL)
        => \A id \in DOMAIN server_items :
               server_items[id].updated_at < SessionLastSync
                   => /\ id \in DOMAIN vault_items
                      /\ vault_items[id].encrypted_data = server_items[id].encrypted_data

\* C33: for a create or update entry the push sends the row as the store
\* holds it at push time, whatever payload the entry captured: the request
\* body is the row read by id, and the backend row written by an answered
\* request has that body's content and deleted_at.  The entries soft-delete
\* and restore append have operation "update" and no payload.
C33_PushSendsCurrentRow ==
    /\ [][\A t \in Tasks :
            (task[t].pc = "push_item" /\ task'[t].pc = "push_send") =>
                LET e == Entry(t) IN
                task'[t].body = {IF e.table_name = "vault_items"
                                 THEN vault_items[e.record_id]
                                 ELSE folders[e.record_id]}]_vars
    /\ [][\A t \in Tasks :
            (task[t].pc = "push_send" /\ task'[t].how = "acked" /\ task'[t] # task[t]
                /\ Entry(t).operation \in {"create", "update"}
                /\ Entry(t).table_name = "vault_items") =>
                \A row \in task[t].body :
                    /\ server_items'[row.id].encrypted_data = row.encrypted_data
                    /\ server_items'[row.id].folder_id = row.folder_id
                    /\ server_items'[row.id].deleted_at = row.deleted_at]_vars
    /\ [][(soft_delete_vault_item("a", "none") \/ restore_vault_item("a", "none")) =>
            /\ DOMAIN sync_queue' = DOMAIN sync_queue \cup {sqlite_sequence + 1}
            /\ sync_queue'[sqlite_sequence + 1].operation = "update"
            /\ sync_queue'[sqlite_sequence + 1].payload = {}]_vars

\* C33 witness: item a was updated and then moved to the trash; the push of
\* the update entry, whose payload is the row before the trashing, has
\* written the trashed row to the backend.
C33_Witness ==
    /\ task["t1"].pc = "push_remove"
    /\ Entry("t1").operation = "update"
    /\ Entry("t1").table_name = "vault_items"
    /\ Entry("t1").payload # {}
    /\ \A p \in Entry("t1").payload : p.deleted_at = NULL
    /\ "a" \in DOMAIN server_items
    /\ server_items["a"].deleted_at # NULL

\* C34: a regular cycle removes only entries its push phase listed: every
\* removal from the outbox is the dequeue of the entry the loop is at, and
\* from the listing to the end of the cycle an entry that is not in the
\* listing stays in the outbox.
C34_CycleRemovesOnlyListed ==
    [][\A id \in DOMAIN sync_queue \ DOMAIN sync_queue' :
          /\ \E t \in Tasks : task[t].pc = "push_remove" /\ Entry(t).id = id
          /\ \A t \in Tasks :
                (task[t].call = "sync"
                    /\ task[t].pc \in (CyclePcs \cup TailPcs)
                                        \ {"get_session", "ensure_valid_token", "save_session",
                                            "push_list"})
                => \E k \in 1..Len(task[t].pending) : task[t].pending[k].id = id]_vars

\* C34 witness: a cycle is at its end, the entries it listed are gone, and
\* an entry queued while it ran is in the outbox.
C34_Witness ==
    /\ task["t1"].call = "sync"
    /\ task["t1"].pc = "get_status"
    /\ Len(task["t1"].pending) > 0
    /\ \A k \in 1..Len(task["t1"].pending) : ~(task["t1"].pending[k].id \in DOMAIN sync_queue)
    /\ \E id \in DOMAIN sync_queue :
          \A k \in 1..Len(task["t1"].pending) : task["t1"].pending[k].id # id

\* C35 (as stated; the code violates it): while initial_sync is between the
\* start of its pull and its outbox clear, no call of sync() is inside a
\* cycle.
C35_Original ==
    ~ \E t \in Tasks, u \in Tasks :
        /\ task[t].call = "login"
        /\ task[t].pc \in {"pull_folders", "store_folders", "pull_items", "store_items",
                             "clear_sync_queue"}
        /\ task[u].call = "sync"
        /\ task[u].pc \in CyclePcs

\* C36 (as stated; the code violates it): every item that exists locally and
\* has a create or update entry in the outbox is returned by
\* get_unsynced_items.  Rows stamped synced in the very instant of their
\* last edit are left out of the formula.
C36_Original ==
    \A e \in DOMAIN sync_queue :
        (/\ sync_queue[e].table_name = "vault_items"
         /\ sync_queue[e].operation \in {"create", "update"}
         /\ sync_queue[e].record_id \in DOMAIN vault_items)
        => LET row == vault_items[sync_queue[e].record_id] IN
           \/ row \in get_unsynced_items(vault_items)
           \/ row.local_updated_at = row.synced_at

\* C37 (as stated; the code violates it): whenever the engine is idle, with
\* no call in progress, the last_sync_at of the status block equals the
\* last_sync_at of the stored session, both absent when there is no session.
C37_Original ==
    (~status.is_syncing /\ \A t \in Tasks : task[t].pc = "idle")
        => status.last_sync_at = SessionLastSync

\* C38 (as stated; the code violates it): with no other client writing to
\* the backend and no edit by the user, syncing leaves the user-visible
\* fields of the item created offline as they were; in particular it is
\* still a favourite.
C38_Original ==
    /\ "a" \in DOMAIN vault_items
    /\ vault_items["a"].encrypted_data = OfflineItem.encrypted_data
    /\ vault_items["a"].item_type = OfflineItem.item_type
    /\ vault_items["a"].folder_id = OfflineItem.folder_id
    /\ vault_items["a"].deleted_at = OfflineItem.deleted_at
    /\ vault_items["a"].is_favorite = OfflineItem.is_favorite

\* C39: delete_folder(f) removes folder f and no other folder, sets
\* folder_id to null on every item that referenced f and changes no other
\* field of any item, and appends exactly one outbox entry (delete, folders,
\* f), the entries already queued staying as they were.
C39_DeleteFolderFrame ==
    [][\A f \in FolderIds :
          delete_folder(f, "none") =>
              /\ db_result' = "Ok"
              /\ folders' = Del(folders, f)
              /\ DOMAIN vault_items' = DOMAIN vault_items
              /\ \A x \in DOMAIN vault_items :
                    /\ vault_items'[x].folder_id =
                           IF vault_items[x].folder_id = f THEN NoFolder
                           ELSE vault_items[x].folder_id
                    /\ [vault_items'[x] EXCEPT !.folder_id = NoFolder]
                           = [vault_items[x] EXCEPT !.folder_id = NoFolder]
              /\ DOMAIN sync_queue' = DOMAIN sync_queue \cup {sqlite_sequence'}
              /\ sqlite_sequence' = sqlite_sequence + 1
              /\ \A e \in DOMAIN sync_queue : sync_queue'[e] = sync_queue[e]
              /\ sync_queue'[sqlite_sequence'].operation = "delete"
              /\ sync_queue'[sqlite_sequence'].table_name = "folders"
              /\ sync_queue'[sqlite_sequence'].record_id = f]_vars

\* C39 witness: the only call made was delete_folder of the folder that held
\* item a: the folder is gone, a is in no folder and is otherwise the row it
\* was, and the outbox holds the folder's delete entry alone.
C39_Witness ==
    /\ store_calls = 1
    /\ db_result = "Ok"
    /\ folders = EmptyTable
    /\ vault_items["a"] = VaultItem("a", "d1", NoFolder, TRUE, NULL, 0, 0, 0)
    /\ DOMAIN sync_queue = {1}
    /\ sync_queue[1].operation = "delete"
    /\ sync_queue[1].table_name = "folders"
    /\ sync_queue[1].record_id = "f"

\* C40: the status lock and the store lock never deadlock: no caller waits
\* for the status lock while it holds the store lock, and every lock a
\* caller of sync, get_status, check_connectivity or a store method asks for
\* is eventually given to it.
C40_NoLockOrderCycle ==
    /\ [](\A t \in LockTasks :
             "conn" \in task[t].held => task[t].wants \notin {"status.read", "status.write"})
    /\ \A t \in LockTasks :
          \A lock \in {"status.read", "status.write", "conn"} :
              (task[t].wants = lock) ~> (lock \in task[t].held)

\* C40 witness: get_status holds its read guard and waits for the mutex a
\* store call holds, while a third caller waits for the write guard.
C40_Witness ==
    \E t, u, v \in LockTasks :
        /\ task[t].call = "get_status"
        /\ "status.read" \in task[t].held
        /\ task[t].wants = "conn"
        /\ task[u].call = "store"
        /\ "conn" \in task[u].held
        /\ task[v].wants = "status.write"
====
